---------------------------- MODULE Spec2Model ----------------------------
(***************************************************************************)
(* A model of the core of gb-emu: the LR35902 register file and ALU        *)
(* (gb_cpu/src/registers.rs, gb_cpu/src/execute.rs), the PPU's             *)
(* memory-mapped registers, its dot-stepped scanline coroutine and the     *)
(* OAM DMA engine (gb_core/src/gameboy/ppu/execute/mod.rs,                 *)
(* gb_core/src/gameboy/ppu/registers.rs).                                  *)
(*                                                                         *)
(* Rust structs are records, methods are operators from records to         *)
(* records, and every coroutine resume (one PPU dot) or handler call       *)
(* (perform_io, clock_dma) is one action.  Numbers are written in decimal; *)
(* the hexadecimal value of the source is given in the comment.            *)
(***************************************************************************)
EXTENDS Integers, Sequences, FiniteSets, TLC

VARIABLES
    ppu,        \* PpuState: registers, OAM, interrupt latches, DMA state
    gen,        \* the PPU coroutine of gen(): resume point and locals
    data_out,   \* the `data: &mut u8` slot handed to perform_io
    if_reg,     \* the `interrupt_request: &mut u8` slot (the IF byte)
    pins,       \* the CpuOutputPins returned by the last clock_dma call
    cpu,        \* Cpu.registers (a, f, b, c, d, e, h, l, sp, pc)
    last,       \* observation: the operation performed last, with its inputs
    dmaObs,     \* observation: the running DMA's start byte and call count
    obs,        \* observation: dots per scanline and frame, operation counts
    run,        \* CpuRunner: the Cpu, its coroutine and the request yielded last
    trace       \* observation: the requests and inputs of the instruction under way

vars == <<ppu, gen, data_out, if_reg, pins, cpu, last, dmaObs, obs, run, trace>>

---------------------------------------------------------------------------
(* Fixed-width integer arithmetic of the source (u8, u16, bit operators).  *)

RECURSIVE BitAnd(_, _)
BitAnd(x, y) ==
    IF x = 0 \/ y = 0 THEN 0
    ELSE (x % 2) * (y % 2) + 2 * BitAnd(x \div 2, y \div 2)

RECURSIVE BitOr(_, _)
BitOr(x, y) ==
    IF x = 0 THEN y
    ELSE IF y = 0 THEN x
    ELSE (IF x % 2 = 1 \/ y % 2 = 1 THEN 1 ELSE 0) + 2 * BitOr(x \div 2, y \div 2)

RECURSIVE BitXor(_, _)
BitXor(x, y) ==
    IF x = 0 THEN y
    ELSE IF y = 0 THEN x
    ELSE ((x + y) % 2) + 2 * BitXor(x \div 2, y \div 2)

\* !x on a u8
BitNot8(x) == 255 - x

\* `x as u8`, `x as u16`
U8(x) == x % 256
U16(x) == x % 65536

Bytes == 0 .. 255

---------------------------------------------------------------------------
(* registers.rs: FRegister, a u8 of which only the upper nibble is used.   *)

EMPTY == 0
ZERO == 128         \* 0x80
NEGATIVE == 64      \* 0x40
HALFCARRY == 32     \* 0x20
CARRY == 16         \* 0x10

\* impl From<u8> for FRegister: FRegister(v & 0xF0)
F_from_unmasked(v) == v
F_from(v) == BitAnd(v, 240)

\* impl BitOr / BitAnd / Not for FRegister
F_bitor(x, y) == BitOr(x, y)
F_bitand(x, y) == BitAnd(x, y)
F_not(x) == BitAnd(BitNot8(x), 240)

\* FRegister::contains: self.0 & other.0 != 0
F_contains(x, other) == BitAnd(x, other) # 0

\* FRegister::set, unset, set_value
F_set(x, other) == F_bitor(x, other)
F_unset(x, other) == F_bitand(x, F_not(other))
F_set_value(x, flags, value) == IF value THEN F_set(x, flags) ELSE F_unset(x, flags)

\* impl From<FRegister> for u8
F_bits(x) == x

---------------------------------------------------------------------------
(* registers.rs: Registers and its 16-bit pair views.                      *)

\* #[derive(Default)] Registers
Registers_default ==
    [a |-> 0, f |-> EMPTY, b |-> 0, c |-> 0, d |-> 0, e |-> 0,
     h |-> 0, l |-> 0, sp |-> 0, pc |-> 0]

\* combined_registers!(bc, c, b): ($combined, $low, $high)
get_bc(r) == BitOr(r.b * 256, r.c)
set_bc_swapped(r, v) == [r EXCEPT !.c = v \div 256, !.b = BitAnd(v, 255)]
set_bc(r, v) == [r EXCEPT !.b = v \div 256, !.c = BitAnd(v, 255)]

\* combined_registers!(de, e, d)
get_de(r) == BitOr(r.d * 256, r.e)
set_de(r, v) == [r EXCEPT !.d = v \div 256, !.e = BitAnd(v, 255)]

\* combined_registers!(hl, l, h)
get_hl(r) == BitOr(r.h * 256, r.l)
set_hl(r, v) == [r EXCEPT !.h = v \div 256, !.l = BitAnd(v, 255)]

\* Registers::get_af / set_af
get_af(r) == BitOr(r.a * 256, F_bits(r.f))
set_af(r, v) == [r EXCEPT !.a = v \div 256, !.f = F_from(BitAnd(v, 255))]

\* reg_setters_and_getters!(sp: u16, pc: u16)
set_sp(r, v) == [r EXCEPT !.sp = v]
set_pc(r, v) == [r EXCEPT !.pc = v]

\* Cpu::store_16_bits / read_16_bits over LoadDest16Bit
store_16_bits(r, v, dest) ==
    CASE dest = "AF" -> set_af(r, v)
      [] dest = "BC" -> set_bc(r, v)
      [] dest = "DE" -> set_de(r, v)
      [] dest = "HL" -> set_hl(r, v)
      [] dest = "SP" -> set_sp(r, v)

read_16_bits(r, from) ==
    CASE from = "AF" -> get_af(r)
      [] from = "BC" -> get_bc(r)
      [] from = "DE" -> get_de(r)
      [] from = "HL" -> get_hl(r)
      [] from = "SP" -> r.sp

---------------------------------------------------------------------------
(* execute.rs: Cpu::do_math.  MathOperation is Add, Adc, Sub, Sbc, And,    *)
(* Xor, Or, Cp; each arm is written the way the source computes it.        *)

MathOperation == {"Add", "Adc", "Sub", "Sbc", "And", "Xor", "Or", "Cp"}

\* a.overflowing_add(v) on u8: (sum, overflow)
overflowing_add8(a, v) == [sum |-> (a + v) % 256, overflow |-> a + v > 255]

\* a.wrapping_add(v) on u8
wrapping_add8(a, v) == (a + v) % 256

math_Add(r, v) ==
    LET a == r.a
        s == overflowing_add8(a, v)
        f1 == F_unset(r.f, NEGATIVE)
        f2 == F_set_value(f1, ZERO, s.sum = 0)
        f3 == F_set_value(f2, HALFCARRY, BitAnd(a, 15) + BitAnd(v, 15) >= 16)
        f4 == F_set_value(f3, CARRY, s.overflow)
    IN  [r EXCEPT !.a = s.sum, !.f = f4]

math_Adc_half_without_carry(r, v) ==
    LET a == r.a
        vc == IF F_contains(r.f, CARRY) THEN v + 1 ELSE v
        sum == a + vc
        bytesum == U8(sum)
        f1 == F_unset(r.f, NEGATIVE)
        f2 == F_set_value(f1, ZERO, bytesum = 0)
        f3 == F_set_value(f2, HALFCARRY, BitAnd(a, 15) + BitAnd(v, 15) >= 16)
        f4 == F_set_value(f3, CARRY, sum >= 256)
    IN  [r EXCEPT !.a = bytesum, !.f = f4]
math_Adc(r, v) ==
    LET a == r.a
        vc == IF F_contains(r.f, CARRY) THEN v + 1 ELSE v
        sum == a + vc
        carry == sum >= 256
        bytesum == U8(sum)
        al == BitAnd(a, 15)
        vl == BitAnd(v, 15)
        vlc == IF F_contains(r.f, CARRY) THEN vl + 1 ELSE vl
        halfcarry == vlc + al >= 16
        f1 == F_unset(r.f, NEGATIVE)
        f2 == F_set_value(f1, ZERO, bytesum = 0)
        f3 == F_set_value(f2, HALFCARRY, halfcarry)
        f4 == F_set_value(f3, CARRY, carry)
    IN  [r EXCEPT !.a = bytesum, !.f = f4]

\* Sub and Cp share the flag computation; Cp does not store the result.
math_SubFlags(r, v) ==
    LET a == r.a
        nv == wrapping_add8(BitNot8(v), 1)
        sum == wrapping_add8(a, nv)
        f1 == F_set(r.f, NEGATIVE)
        f2 == F_set_value(f1, ZERO, sum = 0)
        f3 == F_set_value(f2, HALFCARRY, BitAnd(a, 15) < BitAnd(v, 15))
        f4 == F_set_value(f3, CARRY, v > a)
    IN  [sum |-> sum, f |-> f4]

math_Sub(r, v) ==
    LET s == math_SubFlags(r, v) IN [r EXCEPT !.a = s.sum, !.f = s.f]

math_Cp(r, v) ==
    LET s == math_SubFlags(r, v) IN [r EXCEPT !.f = s.f]

math_Sbc(r, v) ==
    LET a == r.a
        vc == IF F_contains(r.f, CARRY) THEN v + 1 ELSE v
        carry == vc > a
        sum == a - vc                   \* i16, may be negative
        bytesum == U8(U16(sum))         \* sum as u16 as u8
        al == BitAnd(a, 15)
        vl == BitAnd(v, 15)
        vlc == IF F_contains(r.f, CARRY) THEN vl + 1 ELSE vl
        halfcarry == vlc > al
        f1 == F_set(r.f, NEGATIVE)
        f2 == F_set_value(f1, ZERO, bytesum = 0)
        f3 == F_set_value(f2, HALFCARRY, halfcarry)
        f4 == F_set_value(f3, CARRY, carry)
    IN  [r EXCEPT !.a = bytesum, !.f = f4]

math_And(r, v) ==
    LET new_a == BitAnd(r.a, v)
        f1 == F_unset(r.f, NEGATIVE)
        f2 == F_set_value(f1, ZERO, new_a = 0)
        f3 == F_set(f2, HALFCARRY)
        f4 == F_unset(f3, CARRY)
    IN  [r EXCEPT !.a = new_a, !.f = f4]

\* Xor and Or differ only in the operator applied to A.
math_Logic(r, new_a) ==
    LET f1 == F_unset(r.f, NEGATIVE)
        f2 == F_set_value(f1, ZERO, new_a = 0)
        f3 == F_unset(f2, HALFCARRY)
        f4 == F_unset(f3, CARRY)
    IN  [r EXCEPT !.a = new_a, !.f = f4]

math_Xor(r, v) == math_Logic(r, BitXor(r.a, v))
math_Or(r, v) == math_Logic(r, BitOr(r.a, v))

do_math(r, v, operation) ==
    CASE operation = "Add" -> math_Add(r, v)
      [] operation = "Adc" -> math_Adc(r, v)
      [] operation = "Sub" -> math_Sub(r, v)
      [] operation = "Sbc" -> math_Sbc(r, v)
      [] operation = "And" -> math_And(r, v)
      [] operation = "Xor" -> math_Xor(r, v)
      [] operation = "Or" -> math_Or(r, v)
      [] operation = "Cp" -> math_Cp(r, v)

---------------------------------------------------------------------------
(* ppu/registers.rs: the LCDC and STAT bitflags.                           *)

\* LCDC flags
WINDOW_ENABLE == 32         \* 0x20
BG_TILE_DATA_AREA == 16     \* 0x10
OBJ_SIZE == 4               \* 0x04
\* impl Default for LCDC: LCD_ENABLE | BG_TILE_DATA_AREA | BG_ENABLE = 0x91
LCDC_default == 145

\* STAT flags
LYC_INTERRUPT_ENABLE == 64      \* 0x40
OAM_INTERRUPT_ENABLE == 32      \* 0x20
VBLANK_INTERRUPT_ENABLE == 16   \* 0x10
HBLANK_INTERRUPT_ENABLE == 8    \* 0x08
LYC_EQUALS_LY == 4              \* 0x04

\* bitflags `all()`: the union of the flags each type defines.  LCDC defines
\* all eight bits; STAT defines 0x40, 0x20, 0x10, 0x08, 0x04 and the modes
\* 1, 2, 3, so bit 7 is not a STAT bit.
LCDC_all == 255
STAT_all == 127

\* bitflags from_bits_truncate: bits & all()
LCDC_from_bits_truncate(v) == BitAnd(v, LCDC_all)
STAT_from_bits_truncate(v) == BitAnd(v, STAT_all)

\* bitflags contains: every bit of `flags` is set
flags_contains(bits, flags) == BitAnd(bits, flags) = flags

\* bitflags set(flags, value): insert or remove
flags_set(bits, flags, value) ==
    IF value THEN BitOr(bits, flags) ELSE bits - BitAnd(bits, flags)

\* STAT::MODE_BITMASK = STAT::from_bits_truncate(0xFC)
MODE_BITMASK == STAT_from_bits_truncate(252)

\* STAT::set_mode: *self &= MODE_BITMASK; *self |= mode
STAT_set_mode(stat, mode) == BitOr(BitAnd(stat, MODE_BITMASK), mode)

\* STAT::mode: *self & !MODE_BITMASK (the complement is truncated to all())
STAT_mode(stat) == BitAnd(stat, BitAnd(BitNot8(MODE_BITMASK), STAT_all))

---------------------------------------------------------------------------
(* ppu/execute/mod.rs: PpuState.  The three video RAM arrays are kept as   *)
(* sparse maps (offset -> byte, absent offsets hold 0, as after new()).    *)
(* A frame buffer (frame.rs, 160 x 144 colours) is kept as the number of   *)
(* stores made into it and the coordinates <<x, y>> of the last one; the   *)
(* colours are left out.                                                   *)

OAM_SIZE == 160             \* 0xFEA0 - 0xFE00

DmaInactive == [state |-> "Inactive", addr |-> 0]
DmaActiveFirstRead(a) == [state |-> "ActiveFirstRead", addr |-> a]
DmaActive(a) == [state |-> "Active", addr |-> a]

\* PpuState::new()
PpuState_new ==
    [tile_data |-> <<>>, bg_map_1 |-> <<>>, bg_map_2 |-> <<>>,
     oam |-> [i \in 0 .. OAM_SIZE - 1 |-> 0],
     lcdc |-> LCDC_default, stat |-> 0,
     scy |-> 0, scx |-> 0, ly |-> 0, lyc |-> 0, wy |-> 0, wx |-> 0,
     bgp |-> 0, obp0 |-> 0, obp1 |-> 0,
     vblank_irq |-> FALSE, stat_irq |-> FALSE,
     frame |-> [stores |-> 0, at |-> <<>>],
     back_frame |-> [stores |-> 0, at |-> <<>>],
     dma_transfer |-> DmaInactive]

\* array[offset] = v and array[offset] on a sparse array
ArrayPut(m, k, v) ==
    IF v = 0 THEN [x \in DOMAIN m \ {k} |-> m[x]]
    ELSE [x \in DOMAIN m \cup {k} |-> IF x = k THEN v ELSE m[x]]
ArrayGet(m, k) == IF k \in DOMAIN m THEN m[k] ELSE 0

\* PpuState::sprite_height
sprite_height(p) == IF flags_contains(p.lcdc, OBJ_SIZE) THEN 16 ELSE 8

\* A put_pixel that stores into the front buffer
put_pixel_front(p, x, y) ==
    IF ~(x < 160) \/ ~(y < 144)
    THEN [ppu |-> p, panic |-> TRUE]
    ELSE [ppu |-> [p EXCEPT !.frame = [stores |-> p.frame.stores + 1,
                                       at |-> <<x, y>>]],
          panic |-> FALSE]

\* PpuState::put_pixel(bg_pix, sprite_pix, x, y): the two assertions, then
\* the store `self.back_frame[(x, y)] = ...`
put_pixel(p, x, y) ==
    IF ~(x < 160) \/ ~(y < 144)
    THEN [ppu |-> p, panic |-> TRUE]
    ELSE [ppu |-> [p EXCEPT !.back_frame = [stores |-> p.back_frame.stores + 1,
                                            at |-> <<x, y>>]],
          panic |-> FALSE]

\* PpuState::swap_frames
swap_frames(p) == [p EXCEPT !.frame = p.back_frame, !.back_frame = p.frame]

\* PpuState::update_stat_interrupt
update_stat_interrupt(p) ==
    LET mode == STAT_mode(p.stat)
        mode_int ==
            \/ mode = 0 /\ flags_contains(p.stat, HBLANK_INTERRUPT_ENABLE)
            \/ mode = 1 /\ flags_contains(p.stat, VBLANK_INTERRUPT_ENABLE)
            \/ mode = 2 /\ flags_contains(p.stat, OAM_INTERRUPT_ENABLE)
        lyc_int == flags_contains(p.stat, BitOr(LYC_INTERRUPT_ENABLE, LYC_EQUALS_LY))
    IN  [p EXCEPT !.stat_irq = mode_int \/ lyc_int]

\* PpuState::set_ly
set_ly(p, ly) ==
    update_stat_interrupt(
        [p EXCEPT !.ly = ly,
                  !.stat = flags_set(p.stat, LYC_EQUALS_LY, ly = p.lyc)])

\* A mode change that leaves stat_irq as it was
set_mode_keeps_irq(p, mode) ==
    [p EXCEPT !.stat = STAT_set_mode(p.stat, STAT_from_bits_truncate(mode))]

\* PpuState::set_mode
set_mode(p, mode) ==
    update_stat_interrupt(
        [p EXCEPT !.stat = STAT_set_mode(p.stat, STAT_from_bits_truncate(mode))])

---------------------------------------------------------------------------
(* ppu/execute/mod.rs: PpuState::perform_io.  A request is                 *)
(* [kind |-> "Write", addr, data] or [kind |-> "Read", addr] (a Read       *)
(* carries data 0, so that all requests have one shape); the result is the *)
(* new PpuState with the contents of the two `&mut u8` slots.              *)

WriteReq(a, v) == [kind |-> "Write", addr |-> a, data |-> v]
ReadReq(a) == [kind |-> "Read", addr |-> a, data |-> 0]

\* Address ranges and registers, as matched in perform_io
TILE_DATA_BASE == 32768     \* 0x8000
BG_MAP_1_BASE == 38912      \* 0x9800
BG_MAP_2_BASE == 39936      \* 0x9C00
VRAM_END == 40960           \* 0xA000 (exclusive)
OAM_BASE == 65024           \* 0xFE00
REG_LCDC == 65344           \* 0xFF40
REG_STAT == 65345           \* 0xFF41
REG_SCY == 65346            \* 0xFF42
REG_SCX == 65347            \* 0xFF43
REG_LY == 65348             \* 0xFF44
REG_LYC == 65349            \* 0xFF45
REG_DMA == 65350            \* 0xFF46
REG_BGP == 65351            \* 0xFF47
REG_OBP0 == 65352           \* 0xFF48
REG_OBP1 == 65353           \* 0xFF49
REG_WY == 65354             \* 0xFF4A
REG_WX == 65355             \* 0xFF4B

\* the Write arm of the match
io_write_stat(p, v) ==
    update_stat_interrupt([p EXCEPT !.stat = STAT_from_bits_truncate(v)])

io_write_ly(p, v) == [p EXCEPT !.ly = v]

io_write_lyc(p, v) == [p EXCEPT !.lyc = v]

io_write(p, addr, v) ==
    CASE addr >= TILE_DATA_BASE /\ addr < BG_MAP_1_BASE ->
            [p EXCEPT !.tile_data = ArrayPut(@, addr - TILE_DATA_BASE, v)]
      [] addr >= BG_MAP_1_BASE /\ addr < BG_MAP_2_BASE ->
            [p EXCEPT !.bg_map_1 = ArrayPut(@, addr - BG_MAP_1_BASE, v)]
      [] addr >= BG_MAP_2_BASE /\ addr < VRAM_END ->
            [p EXCEPT !.bg_map_2 = ArrayPut(@, addr - BG_MAP_2_BASE, v)]
      [] addr >= OAM_BASE /\ addr < OAM_BASE + OAM_SIZE ->
            [p EXCEPT !.oam[addr - OAM_BASE] = v]
      [] addr = REG_LCDC -> [p EXCEPT !.lcdc = LCDC_from_bits_truncate(v)]
      [] addr = REG_STAT -> io_write_stat(p, v)
      [] addr = REG_SCY -> [p EXCEPT !.scy = v]
      [] addr = REG_SCX -> [p EXCEPT !.scx = v]
      [] addr = REG_LY -> io_write_ly(p, v)
      [] addr = REG_LYC -> io_write_lyc(p, v)
      [] addr = REG_DMA ->
            [p EXCEPT !.dma_transfer = DmaActiveFirstRead(v * 256)]
      [] addr = REG_BGP -> [p EXCEPT !.bgp = v]
      [] addr = REG_OBP0 -> [p EXCEPT !.obp0 = v]
      [] addr = REG_OBP1 -> [p EXCEPT !.obp1 = v]
      [] addr = REG_WY -> [p EXCEPT !.wy = v]
      [] addr = REG_WX -> [p EXCEPT !.wx = v]
      [] OTHER -> p

\* the Read arm of the match: the new content of *data
io_read_stat_bit7(p) == BitOr(p.stat, 128)
io_read_stat(p) == p.stat

io_read_dma_stale(p) == p.dma_transfer.addr \div 256 + 1
io_read_dma(p) ==
    IF p.dma_transfer.state \in {"Active", "ActiveFirstRead"}
    THEN U8(p.dma_transfer.addr \div 256)
    ELSE 0

io_read(p, addr, data) ==
    CASE addr >= TILE_DATA_BASE /\ addr < BG_MAP_1_BASE ->
            ArrayGet(p.tile_data, addr - TILE_DATA_BASE)
      [] addr >= BG_MAP_1_BASE /\ addr < BG_MAP_2_BASE ->
            ArrayGet(p.bg_map_1, addr - BG_MAP_1_BASE)
      [] addr >= BG_MAP_2_BASE /\ addr < VRAM_END ->
            ArrayGet(p.bg_map_2, addr - BG_MAP_2_BASE)
      [] addr >= OAM_BASE /\ addr < OAM_BASE + OAM_SIZE -> p.oam[addr - OAM_BASE]
      [] addr = REG_LCDC -> p.lcdc
      [] addr = REG_STAT -> io_read_stat(p)
      [] addr = REG_SCY -> p.scy
      [] addr = REG_SCX -> p.scx
      [] addr = REG_LY -> p.ly
      [] addr = REG_LYC -> p.lyc
      [] addr = REG_DMA -> io_read_dma(p)
      [] addr = REG_BGP -> p.bgp
      [] addr = REG_OBP0 -> p.obp0
      [] addr = REG_OBP1 -> p.obp1
      [] addr = REG_WY -> p.wy
      [] addr = REG_WX -> p.wx
      [] OTHER -> data

\* A refresh that raises the two bits and never lowers them
io_irq_raise_only(p, irq) ==
    LET i0 == IF p.vblank_irq THEN BitOr(irq, 1) ELSE irq
    IN  IF p.stat_irq THEN BitOr(i0, 2) ELSE i0

\* the refresh of *interrupt_request from the two latches
io_irq(p, irq) ==
    LET i0 == IF p.vblank_irq THEN BitOr(irq, 1) ELSE BitAnd(irq, 254)
    IN  IF p.stat_irq THEN BitOr(i0, 2) ELSE BitAnd(i0, 253)

perform_io(p, req, data, irq) ==
    LET p1 == IF req.kind = "Write" THEN io_write(p, req.addr, req.data) ELSE p
        d1 == IF req.kind = "Read" THEN io_read(p, req.addr, data) ELSE data
    IN  [ppu |-> p1, data |-> d1, irq |-> io_irq(p1, irq)]

---------------------------------------------------------------------------
(* ppu/execute/mod.rs: PpuState::clock_dma.  Clocking an Inactive DMA is   *)
(* unreachable!() in the source, so the operator is applied only to a      *)
(* transfer in progress.  The result is the new state and the bus request. *)

clock_dma_skip(p, input_data) ==
    LET addr == p.dma_transfer.addr
        i == addr % 256
    IN  IF p.dma_transfer.state = "ActiveFirstRead"
        THEN [ppu |-> [p EXCEPT !.dma_transfer = DmaActive(addr)],
              pins |-> ReadReq(addr + 1)]
        ELSE IF i = 159
        THEN [ppu |-> [p EXCEPT !.oam[i] = input_data, !.dma_transfer = DmaInactive],
              pins |-> ReadReq(0)]
        ELSE [ppu |-> [p EXCEPT !.oam[i] = input_data,
                                !.dma_transfer = DmaActive(addr + 1)],
              pins |-> ReadReq(addr + 1)]
\* A clock_dma that stops one byte later, after offset 0xA0
clock_dma_past_end(p, input_data) ==
    LET addr == p.dma_transfer.addr
        i == addr % 256
    IN  IF p.dma_transfer.state = "ActiveFirstRead"
        THEN [ppu |-> [p EXCEPT !.dma_transfer = DmaActive(addr)],
              pins |-> ReadReq(addr)]
        ELSE IF i = 160
        THEN [ppu |-> [p EXCEPT !.dma_transfer = DmaInactive],
              pins |-> ReadReq(0)]
        ELSE [ppu |-> [p EXCEPT !.oam[i] = input_data,
                                !.dma_transfer = DmaActive(addr + 1)],
              pins |-> ReadReq(addr + 1)]

clock_dma(p, input_data) ==
    LET addr == p.dma_transfer.addr
        i == addr % 256
    IN  IF p.dma_transfer.state = "ActiveFirstRead"
        THEN [ppu |-> [p EXCEPT !.dma_transfer = DmaActive(addr)],
              pins |-> ReadReq(addr)]
        ELSE IF i = 159
        THEN [ppu |-> [p EXCEPT !.oam[i] = input_data, !.dma_transfer = DmaInactive],
              pins |-> ReadReq(0)]
        ELSE [ppu |-> [p EXCEPT !.oam[i] = input_data,
                                !.dma_transfer = DmaActive(addr + 1)],
              pins |-> ReadReq(addr + 1)]

---------------------------------------------------------------------------
(* ppu/execute/pixel_fifo.rs is not among the source files.  The BG        *)
(* fetcher and FIFO are modelled from section 4.2 of the specification, as *)
(* far as they decide when gen() gets a pixel: a fetcher that steps        *)
(* through tile-id, data-low, data-high and push, and a FIFO length.  The  *)
(* pixel colours and the sprite FIFO do not influence the control flow of  *)
(* gen() and are left out.                                                 *)

TileCounterBg == [kind |-> "Bg", x_counter |-> 0, window_line |-> 0]
TileCounterWindow(wl) == [kind |-> "Window", x_counter |-> 0, window_line |-> wl]

\* BgPixelFifo::new
BgPixelFifo_new == [len |-> 0, phase |-> 0, counter |-> TileCounterBg]

\* BgPixelFifo::set_tile_map_offset
fifo_set_tile_map_offset(f, counter) == [f EXCEPT !.counter = counter]

\* BgPixelFifo::clock: one fetcher step; the push step pushes 8 pixels when
\* the FIFO holds at most 8 and waits otherwise
fifo_clock(f) ==
    IF f.phase < 3 THEN [f EXCEPT !.phase = f.phase + 1]
    ELSE IF f.len <= 8
    THEN [f EXCEPT !.len = f.len + 8, !.phase = 0,
                   !.counter.x_counter = (f.counter.x_counter + 1) % 32]
    ELSE f

\* BgPixelFifo::pop_pixel: Some(pixel) when the FIFO is not empty
fifo_can_pop(f) == f.len > 0
fifo_pop(f) == [f EXCEPT !.len = f.len - 1]

\* BgPixelFifo::reset_fetcher, BgPixelFifo::clear
fifo_reset_fetcher(f) == [f EXCEPT !.phase = 0]
fifo_clear(f) == [f EXCEPT !.len = 0]

---------------------------------------------------------------------------
(* ppu/execute/mod.rs: gen(), the PPU coroutine.  One resume runs from a   *)
(* yield to the next yield (one dot).  `pc` names the yield the coroutine  *)
(* is suspended at:                                                        *)
(*   start   not yet resumed                                               *)
(*   oam_a   first yield of OAM entry `entry` (line 373)                   *)
(*   oam_b   second yield of OAM entry `entry` (line 374)                  *)
(*   sprite  yield `fetch_k` of the 6 sprite-fetch yields (line 406);      *)
(*           `fetch_slot` is the buffer slot `sprite` refers to and        *)
(*           `fetch_xpos` the local `xpos`                                 *)
(*   draw    the yield that ends a draw-loop iteration (line 435)          *)
(*   hblank  the yield in the HBlank loop (line 445)                       *)
(*   vblank  yield `vdot` of a VBlank scanline (line 457)                  *)
(* The other fields are the locals of the coroutine.  `ly_advanced`,       *)
(* `frame_started` and `draw_ended` report whether the resume called       *)
(* set_ly / began a frame / left the draw loop, `window_drawn` is          *)
(* inside_window as the draw loop was left, `swapped` reports a call of    *)
(* swap_frames and `put` the <<x, y>> of a call of put_pixel; they are     *)
(* reset by every resume.  A failed assertion of put_pixel leaves the      *)
(* coroutine at pc "panicked", where no resume gets any further.           *)

VISIBLE_LINES == 144        \* for scanline in 0..144
TOTAL_LINES == 154          \* for scanline in 144..154
OAM_ENTRIES == 40           \* for entry in 0..40
SPRITE_BUFFER_SIZE == 10    \* [OamEntry; 10]
OAM_SEARCH_DOTS == 80       \* let mut cycles = 80
SCANLINE_DOTS == 456        \* while cycles < 456 / for _dot in 0..456
SCREEN_WIDTH == 160         \* while x < 160
SPRITE_FETCH_DOTS == 6      \* for _ in 0..6

\* OamEntry { xpos: 255, ..Default::default() }
OamEntry_offscreen == [ypos |-> 0, xpos |-> 255, tile |-> 0, flags |-> 0]

\* PpuState::oam(index); OamEntryFlags defines 0x80, 0x40, 0x20, 0x10
oam_entry(p, index) ==
    [ypos |-> p.oam[index * 4],
     xpos |-> p.oam[index * 4 + 1],
     tile |-> p.oam[index * 4 + 2],
     flags |-> BitAnd(p.oam[index * 4 + 3], 240)]

\* PpuState::oam(index) as a call that can fail: `assert!(index <= 40)`,
\* then the four indexed reads, each bounds-checked against the array
oam(p, index) ==
    IF ~(index <= OAM_ENTRIES)
    THEN [panic |-> "assertion", entry |-> OamEntry_offscreen]
    ELSE IF \E k \in 0 .. 3 : index * 4 + k >= OAM_SIZE
    THEN [panic |-> "index out of bounds", entry |-> OamEntry_offscreen]
    ELSE [panic |-> "", entry |-> oam_entry(p, index)]

gen_new ==
    [pc |-> "start", scanline |-> 0, entry |-> 0,
     wy_passed |-> FALSE, window_lines |-> 0,
     sprite_buffer |-> [i \in 0 .. SPRITE_BUFFER_SIZE - 1 |-> OamEntry_offscreen],
     sprite_buffer_len |-> 0,
     cycles |-> 0, x |-> 0, inside_window |-> FALSE,
     bg_fifo |-> BgPixelFifo_new,
     fetch_k |-> 0, fetch_xpos |-> 0, fetch_slot |-> 0, vdot |-> 0,
     ly_advanced |-> FALSE, frame_started |-> FALSE,
     draw_ended |-> FALSE, window_drawn |-> FALSE,
     swapped |-> FALSE, put |-> <<>>]

\* A test of OAM entry `e` that keeps storing into the last slot of a full
\* buffer
gen_scan_entry_overwrites(p, g, e) ==
    LET entry == oam_entry(p, e)
        hit == /\ entry.xpos > 0
               /\ g.scanline + 16 >= entry.ypos
               /\ g.scanline + 16 < entry.ypos + sprite_height(p)
        slot == IF g.sprite_buffer_len < SPRITE_BUFFER_SIZE
                THEN g.sprite_buffer_len ELSE SPRITE_BUFFER_SIZE - 1
    IN  IF hit
        THEN [g EXCEPT !.sprite_buffer[slot] = entry,
                       !.sprite_buffer_len = slot + 1]
        ELSE g

\* lines 363-372: the test of OAM entry `e` during the OAM search
gen_scan_entry(p, g, e) ==
    LET entry == oam_entry(p, e)
        hit == /\ g.sprite_buffer_len < SPRITE_BUFFER_SIZE
               /\ entry.xpos > 0
               /\ g.scanline + 16 >= entry.ypos
               /\ g.scanline + 16 < entry.ypos + sprite_height(p)
    IN  IF hit
        THEN [g EXCEPT !.sprite_buffer[g.sprite_buffer_len] = entry,
                       !.sprite_buffer_len = g.sprite_buffer_len + 1]
        ELSE g

\* A scanline whose first OAM entry takes one dot instead of two
gen_start_scanline_short(p, g, s) ==
    LET p1 == set_mode(set_ly(p, s), 2)
        g1 == [g EXCEPT !.scanline = s,
                        !.wy_passed = g.wy_passed \/ p1.ly = p1.wy,
                        !.sprite_buffer =
                            [i \in 0 .. SPRITE_BUFFER_SIZE - 1 |-> OamEntry_offscreen],
                        !.sprite_buffer_len = 0,
                        !.cycles = 0, !.x = 0, !.inside_window = FALSE,
                        !.bg_fifo = BgPixelFifo_new,
                        !.fetch_k = 0, !.fetch_xpos = 0, !.vdot = 0,
                        !.entry = 0, !.ly_advanced = TRUE]
    IN  [ppu |-> p1, gen |-> [gen_scan_entry(p1, g1, 0) EXCEPT !.pc = "oam_b"]]

\* lines 350-373: a visible scanline begins, up to the first yield
gen_start_scanline(p, g, s) ==
    LET p1 == set_ly(p, s)
        p2 == set_mode(p1, 2)
        g1 == [g EXCEPT !.scanline = s,
                        !.wy_passed = g.wy_passed \/ p1.ly = p1.wy,
                        !.sprite_buffer =
                            [i \in 0 .. SPRITE_BUFFER_SIZE - 1 |-> OamEntry_offscreen],
                        !.sprite_buffer_len = 0,
                        !.cycles = 0, !.x = 0, !.inside_window = FALSE,
                        !.bg_fifo = BgPixelFifo_new,
                        !.fetch_k = 0, !.fetch_xpos = 0, !.vdot = 0,
                        !.entry = 0, !.ly_advanced = TRUE]
    IN  [ppu |-> p2, gen |-> [gen_scan_entry(p2, g1, 0) EXCEPT !.pc = "oam_a"]]

\* lines 344-349: the top of the frame loop
gen_start_frame(p, g) ==
    gen_start_scanline(p, [g EXCEPT !.wy_passed = FALSE, !.window_lines = 0,
                                    !.frame_started = TRUE], 0)

\* A VBlank that begins without raising vblank_irq
gen_start_vblank_silent(p, g) ==
    [ppu |-> set_ly(swap_frames(set_mode(p, 1)), VISIBLE_LINES),
     gen |-> [g EXCEPT !.pc = "vblank", !.scanline = VISIBLE_LINES, !.vdot = 0,
                       !.ly_advanced = TRUE, !.swapped = TRUE]]

\* lines 450-457: VBlank begins
gen_start_vblank(p, g) ==
    LET p1 == swap_frames(set_mode(p, 1))
        p2 == [p1 EXCEPT !.vblank_irq = TRUE]
        p3 == set_ly(p2, VISIBLE_LINES)
    IN  [ppu |-> p3,
         gen |-> [g EXCEPT !.pc = "vblank", !.scanline = VISIBLE_LINES, !.vdot = 0,
                           !.ly_advanced = TRUE, !.swapped = TRUE]]

\* the end of one iteration of `for scanline in 0..144`
gen_next_line(p, g) ==
    IF g.scanline + 1 < VISIBLE_LINES
    THEN gen_start_scanline(p, g, g.scanline + 1)
    ELSE gen_start_vblank(p, g)

\* A draw loop that is left without the change to mode 0
gen_end_draw_keeps_mode(p, g) ==
    LET g1 == [g EXCEPT !.window_lines =
                            IF g.wy_passed THEN g.window_lines + 1 ELSE g.window_lines,
                        !.draw_ended = TRUE, !.window_drawn = g.inside_window]
    IN  IF g1.cycles < SCANLINE_DOTS
        THEN [ppu |-> p, gen |-> [g1 EXCEPT !.pc = "hblank"]]
        ELSE gen_next_line(p, g1)

\* lines 438-447: the draw loop is left; window_lines, mode 0, HBlank loop
gen_end_draw(p, g) ==
    LET g1 == [g EXCEPT !.window_lines =
                            IF g.wy_passed THEN g.window_lines + 1 ELSE g.window_lines,
                        !.draw_ended = TRUE, !.window_drawn = g.inside_window]
        p1 == set_mode(p, 0)
    IN  IF g1.cycles < SCANLINE_DOTS
        THEN [ppu |-> p1, gen |-> [g1 EXCEPT !.pc = "hblank"]]
        ELSE gen_next_line(p1, g1)

\* lines 416-435: the rest of a draw-loop iteration once a BG pixel is
\* there: emit the pixel, test the window entry, x += 1, yield
gen_emit_pixel(p, g) ==
    LET enter == /\ flags_contains(p.lcdc, WINDOW_ENABLE)
                 /\ g.wy_passed
                 /\ g.x >= p.wx - 7
                 /\ ~g.inside_window
        f1 == IF enter
              THEN fifo_set_tile_map_offset(fifo_clear(g.bg_fifo),
                                            TileCounterWindow(g.window_lines))
              ELSE g.bg_fifo
        r == IF g.x >= 0 THEN put_pixel(p, g.x, g.scanline)
             ELSE [ppu |-> p, panic |-> FALSE]
    IN  IF r.panic
        THEN [ppu |-> p, gen |-> [g EXCEPT !.pc = "panicked"]]
        ELSE [ppu |-> r.ppu,
              gen |-> [g EXCEPT !.bg_fifo = f1,
                                !.inside_window = g.inside_window \/ enter,
                                !.x = g.x + 1,
                                !.put = IF g.x >= 0 THEN <<g.x, g.scanline>> ELSE <<>>,
                                !.pc = "draw"]]

\* the index of the first buffered sprite with xpos <= x + 8, or -1
gen_find_sprite(g) ==
    LET hits == {i \in 0 .. SPRITE_BUFFER_SIZE - 1 : g.sprite_buffer[i].xpos <= g.x + 8}
    IN  IF hits = {} THEN -1 ELSE CHOOSE i \in hits : \A j \in hits : i <= j

\* A draw-loop iteration that dispatches a sprite without moving it
\* offscreen
gen_draw_iter_keeps_xpos(p, g) ==
    LET f1 == IF g.cycles % 2 = 0 THEN fifo_clock(g.bg_fifo) ELSE g.bg_fifo
    IN  IF ~fifo_can_pop(f1)
        THEN [ppu |-> p, gen |-> [g EXCEPT !.bg_fifo = f1, !.pc = "draw"]]
        ELSE LET f2 == fifo_pop(f1)
                 s == gen_find_sprite(g)
             IN  IF s >= 0
                 THEN [ppu |-> p,
                       gen |-> [g EXCEPT !.bg_fifo = fifo_reset_fetcher(f2),
                                         !.fetch_xpos = g.sprite_buffer[s].xpos,
                                         !.fetch_slot = s,
                                         !.fetch_k = 1,
                                         !.pc = "sprite"]]
                 ELSE gen_emit_pixel(p, [g EXCEPT !.bg_fifo = f2])

\* lines 388-414: the head of a draw-loop iteration
gen_draw_iter(p, g) ==
    LET f1 == IF g.cycles % 2 = 0 THEN fifo_clock(g.bg_fifo) ELSE g.bg_fifo
    IN  IF ~fifo_can_pop(f1)
        THEN [ppu |-> p, gen |-> [g EXCEPT !.bg_fifo = f1, !.pc = "draw"]]
        ELSE LET f2 == fifo_pop(f1)
                 s == gen_find_sprite(g)
             IN  IF s >= 0
                 THEN [ppu |-> p,
                       gen |-> [g EXCEPT !.bg_fifo = fifo_reset_fetcher(f2),
                                         !.fetch_xpos = g.sprite_buffer[s].xpos,
                                         !.fetch_slot = s,
                                         !.sprite_buffer[s].xpos = 255,
                                         !.fetch_k = 1,
                                         !.pc = "sprite"]]
                 ELSE gen_emit_pixel(p, [g EXCEPT !.bg_fifo = f2])

\* lines 377-387: mode 3 begins
gen_start_draw(p, g) ==
    LET p1 == set_mode(p, 3)
        g1 == [g EXCEPT !.cycles = OAM_SEARCH_DOTS,
                        !.bg_fifo = fifo_set_tile_map_offset(BgPixelFifo_new, TileCounterBg),
                        !.x = 0 - (p1.scx % 8),
                        !.inside_window = FALSE]
    IN  gen_draw_iter(p1, g1)

\* One resume of the coroutine: from the yield named by g.pc to the next.
gen_resume(p, g0) ==
    LET g == [g0 EXCEPT !.ly_advanced = FALSE, !.frame_started = FALSE,
                        !.draw_ended = FALSE, !.window_drawn = FALSE,
                        !.swapped = FALSE, !.put = <<>>]
    IN  CASE g.pc = "start" -> gen_start_frame(p, g)
          [] g.pc = "oam_a" -> [ppu |-> p, gen |-> [g EXCEPT !.pc = "oam_b"]]
          [] g.pc = "oam_b" ->
                IF g.entry + 1 < OAM_ENTRIES
                THEN [ppu |-> p,
                      gen |-> [gen_scan_entry(p, g, g.entry + 1)
                                  EXCEPT !.entry = g.entry + 1, !.pc = "oam_a"]]
                ELSE gen_start_draw(p, g)
          [] g.pc = "sprite" ->
                IF g.fetch_k < SPRITE_FETCH_DOTS
                THEN [ppu |-> p, gen |-> [g EXCEPT !.fetch_k = g.fetch_k + 1]]
                ELSE gen_emit_pixel(p, [g EXCEPT !.fetch_k = 0, !.fetch_xpos = 0,
                                                 !.fetch_slot = 0])
          [] g.pc = "draw" ->
                LET g1 == [g EXCEPT !.cycles = g.cycles + 1]
                IN  IF g1.x < SCREEN_WIDTH THEN gen_draw_iter(p, g1)
                    ELSE gen_end_draw(p, g1)
          [] g.pc = "hblank" ->
                LET g1 == [g EXCEPT !.cycles = g.cycles + 1]
                IN  IF g1.cycles < SCANLINE_DOTS THEN [ppu |-> p, gen |-> g1]
                    ELSE gen_next_line(p, g1)
          [] g.pc = "vblank" ->
                IF g.vdot + 1 < SCANLINE_DOTS
                THEN [ppu |-> p, gen |-> [g EXCEPT !.vdot = g.vdot + 1]]
                ELSE IF g.scanline + 1 < TOTAL_LINES
                THEN [ppu |-> set_ly(p, g.scanline + 1),
                      gen |-> [g EXCEPT !.scanline = g.scanline + 1, !.vdot = 0,
                                        !.ly_advanced = TRUE]]
                ELSE gen_start_frame([p EXCEPT !.vblank_irq = FALSE], g)
          [] g.pc = "panicked" -> [ppu |-> p, gen |-> g]

---------------------------------------------------------------------------
(* src/gameboy/memory.rs: the work RAM a DMA transfer copies from.  No     *)
(* operation of this model writes to work RAM, so its content is a fixed   *)
(* image: work_ram_1[i] = i mod 256 and work_ram_2[j] = (3j + 7) mod 256.  *)

WORK_RAM_1_BASE == 49152    \* 0xC000
WORK_RAM_2_BASE == 53248    \* 0xD000
WORK_RAM_END == 57344       \* 0xE000 (exclusive)

\* impl Index<u16> for Memory, as used by the Read arm of Memory::clock
Memory_index(addr) ==
    IF addr >= WORK_RAM_1_BASE /\ addr < WORK_RAM_2_BASE
    THEN (addr - WORK_RAM_1_BASE) % 256
    ELSE IF addr >= WORK_RAM_2_BASE /\ addr < WORK_RAM_END
    THEN (3 * (addr - WORK_RAM_2_BASE) + 7) % 256
    ELSE 0

---------------------------------------------------------------------------
(* execute.rs: the instruction engine.  A Cpu is [registers, ime]; the     *)
(* coroutine of cpu_runner_gen is the record `gen` of a runner: its resume *)
(* point `at`, its locals `halted` and `fetch`, and the locals that live   *)
(* across a yield.  The operators below work on a runner                   *)
(*   [cpu, gen, out, panic, overflow_checks]                               *)
(* where `out` is the CpuRunnerYield of the last resume, `panic` names the *)
(* panic that ended the run ("" while it runs) and `overflow_checks` says  *)
(* whether the build checks integer overflow (debug) or wraps (release).   *)

\* decode::Opcode: the x/y/z/p/q split of the opcode byte
Opcode(op) ==
    [x |-> op \div 64, y |-> (op \div 8) % 8, z |-> op % 8,
     p |-> ((op \div 8) % 8) \div 2, q |-> ((op \div 8) % 8) % 2]

\* decode::r, rp, rp2, cc, alu, rot: the tables of the decoding document
decode(table, i) ==
    CASE table = "r" -> <<"B", "C", "D", "E", "H", "L", "IndHL", "A">>[i + 1]
      [] table = "rp" -> <<"BC", "DE", "HL", "SP">>[i + 1]
      [] table = "rp2" -> <<"BC", "DE", "HL", "AF">>[i + 1]
      [] table = "cc" -> <<"NZ", "Z", "NC", "C">>[i + 1]
      [] table = "alu" -> <<"Add", "Adc", "Sub", "Sbc", "And", "Xor", "Or", "Cp">>[i + 1]
      [] table = "rot" -> <<"RLC", "RRC", "RL", "RR", "SLA", "SRA", "SWAP", "SRL">>[i + 1]

\* `as i8 as i16`, `as i16` and `as i8 as i16 as u16`
I8(b) == IF b >= 128 THEN b - 256 ELSE b
I16(w) == IF w >= 32768 THEN w - 65536 ELSE w
SignExtend(b) == IF b >= 128 THEN b + 65280 ELSE b

\* u16::wrapping_add / wrapping_sub
wrapping_add16(a, v) == (a + v) % 65536
wrapping_sub16(a, v) == (a - v + 65536) % 65536
wrapping_sub8(a, v) == (a - v + 256) % 256

\* The 8-bit getters and setters of reg_setters_and_getters!
get_reg8(r, dest) ==
    CASE dest = "B" -> r.b
      [] dest = "C" -> r.c
      [] dest = "D" -> r.d
      [] dest = "E" -> r.e
      [] dest = "H" -> r.h
      [] dest = "L" -> r.l
      [] dest = "A" -> r.a

set_reg8(r, dest, v) ==
    CASE dest = "B" -> [r EXCEPT !.b = v]
      [] dest = "C" -> [r EXCEPT !.c = v]
      [] dest = "D" -> [r EXCEPT !.d = v]
      [] dest = "E" -> [r EXCEPT !.e = v]
      [] dest = "H" -> [r EXCEPT !.h = v]
      [] dest = "L" -> [r EXCEPT !.l = v]
      [] dest = "A" -> [r EXCEPT !.a = v]

\* An adjustment that looks at the flags only, never at the digits of A
daa_flags_only(r) ==
    LET f0 == r.f
        a0 == r.a
        a1 == IF F_contains(f0, CARRY) THEN wrapping_add8(a0, 96) ELSE a0
        a2 == IF F_contains(f0, HALFCARRY) THEN wrapping_add8(a1, 6) ELSE a1
        s1 == IF F_contains(f0, CARRY) THEN wrapping_sub8(a0, 96) ELSE a0
        s2 == IF F_contains(f0, HALFCARRY) THEN wrapping_sub8(s1, 6) ELSE s1
        a == IF ~F_contains(f0, NEGATIVE) THEN a2 ELSE s2
    IN  [r EXCEPT !.f = F_unset(F_set_value(f0, ZERO, a = 0), HALFCARRY),
                  !.a = a]

\* Cpu::daa
daa(r) ==
    LET f0 == r.f
        a0 == r.a
        add60 == F_contains(f0, CARRY) \/ a0 > 153
        a1 == IF add60 THEN wrapping_add8(a0, 96) ELSE a0
        f1 == IF add60 THEN F_set(f0, CARRY) ELSE f0
        a2 == IF F_contains(f1, HALFCARRY) \/ BitAnd(a1, 15) > 9
              THEN wrapping_add8(a1, 6) ELSE a1
        s1 == IF F_contains(f0, CARRY) THEN wrapping_sub8(a0, 96) ELSE a0
        s2 == IF F_contains(f0, HALFCARRY) THEN wrapping_sub8(s1, 6) ELSE s1
        a == IF ~F_contains(f0, NEGATIVE) THEN a2 ELSE s2
        f == IF ~F_contains(f0, NEGATIVE) THEN f1 ELSE f0
    IN  [r EXCEPT !.f = F_unset(F_set_value(f, ZERO, a = 0), HALFCARRY),
                  !.a = a]

\* A flag update that leaves HALFCARRY as it was
rotate_flags_keeps_half(f, nv, c) ==
    F_set_value(F_unset(F_set_value(f, ZERO, nv = 0), NEGATIVE), CARRY, c)

\* The flag update shared by the arms of do_rotate_shift
rotate_flags(f, nv, c) ==
    F_set_value(F_unset(F_unset(F_set_value(f, ZERO, nv = 0), NEGATIVE),
                        HALFCARRY), CARRY, c)

\* Cpu::do_rotate_shift(v, op): the new register file and the result nv
do_rotate_shift(r, v, op) ==
    LET cin == F_contains(r.f, CARRY)
        hi == v >= 128
        lo == v % 2 = 1
        nv == CASE op = "RLC" -> ((v * 2) % 256) + (IF hi THEN 1 ELSE 0)
                [] op = "RRC" -> (v \div 2) + (IF lo THEN 128 ELSE 0)
                [] op = "RL" -> BitOr((v * 2) % 256, IF cin THEN 1 ELSE 0)
                [] op = "RR" -> BitOr(v \div 2, IF cin THEN 128 ELSE 0)
                [] op = "SLA" -> (v * 2) % 256
                [] op = "SRA" -> BitOr(v \div 2, BitAnd(v, 128))
                [] op = "SWAP" -> BitOr(BitAnd(v, 15) * 16, BitAnd(v, 240) \div 16)
                [] op = "SRL" -> v \div 2
        c == CASE op \in {"RLC", "RL", "SLA"} -> hi
               [] op \in {"RRC", "RR", "SRA", "SRL"} -> lo
               [] op = "SWAP" -> FALSE
    IN  [registers |-> [r EXCEPT !.f = rotate_flags(r.f, nv, c)], nv |-> nv]


\* A condition test that never holds
test_condition_never(r, c) == FALSE

\* Cpu::test_condition over FlagCondition
test_condition(r, c) ==
    CASE c = "NZ" -> ~F_contains(r.f, ZERO)
      [] c = "Z" -> F_contains(r.f, ZERO)
      [] c = "NC" -> ~F_contains(r.f, CARRY)
      [] c = "C" -> F_contains(r.f, CARRY)

\* Cpu::nop: a cycle without a bus access is a read of address 0
cpu_nop == ReadReq(0)

REG_IF == 65295             \* 0xFF0F
HIGH_PAGE == 65280          \* 0xFF00

\* CpuInputPins: the byte on the bus and the five interrupt lines
CpuInputPins(d, l40, l48, l50, l58, l60) ==
    [data |-> d, interrupt_40h |-> l40, interrupt_48h |-> l48,
     interrupt_50h |-> l50, interrupt_58h |-> l58, interrupt_60h |-> l60]

\* Cpu::runner: a new coroutine, not yet resumed.  Besides `halted` and
\* `fetch` it holds the locals that live across a yield: the opcode, the
\* second byte of a CB instruction, the interrupt vector, an operand byte
\* and a 16-bit temporary with two flags.
cpu_runner_gen ==
    [at |-> "start", halted |-> FALSE, fetch |-> FALSE,
     opcode |-> 0, cb |-> 0, vector |-> 0, low |-> 0, tmp |-> 0,
     hc |-> FALSE, cy |-> FALSE]

CpuRunner_new(registers, ime, checks) ==
    [cpu |-> [registers |-> registers, ime |-> ime],
     gen |-> cpu_runner_gen,
     out |-> [pins |-> [kind |-> "None", addr |-> 0, data |-> 0],
              is_fetch_cycle |-> FALSE],
     panic |-> "",
     overflow_checks |-> checks]

\* cpu_yield!(pins): the coroutine suspends at `at` and hands out the
\* request with the current value of `fetch`
cpu_yield(k, p, at) ==
    [k EXCEPT !.out = [pins |-> p, is_fetch_cycle |-> k.gen.fetch],
              !.gen.at = at]

\* cpu_yield!(cpu.fetch_byte()): read at pc, pc advanced by one
yield_fetch_byte(k, at) ==
    cpu_yield([k EXCEPT !.cpu.registers.pc = wrapping_add16(@, 1)],
              ReadReq(k.cpu.registers.pc), at)

\* A push that writes at SP without decrementing it
yield_push_byte_in_place(k, v, at) ==
    cpu_yield(k, WriteReq(k.cpu.registers.sp, v), at)

\* modify_sp(|sp| sp.wrapping_sub(1)); cpu_yield!(write_byte(sp, v))
yield_push_byte(k, v, at) ==
    LET sp == wrapping_sub16(k.cpu.registers.sp, 1)
    IN  cpu_yield([k EXCEPT !.cpu.registers.sp = sp], WriteReq(sp, v), at)

\* cpu_yield!(read_byte(sp)) of POP and RET
yield_pop_byte(k, at) == cpu_yield(k, ReadReq(k.cpu.registers.sp), at)

\* panic!(): the run ends inside this resume, nothing is yielded
cpu_panic(k, why) == [k EXCEPT !.panic = why]


\* A selection that serves the highest vector first
interrupt_vector_highest_first(in) ==
    IF in.interrupt_60h THEN 96
    ELSE IF in.interrupt_58h THEN 88
    ELSE IF in.interrupt_50h THEN 80
    ELSE IF in.interrupt_48h THEN 72
    ELSE IF in.interrupt_40h THEN 64
    ELSE 0

\* The interrupt selected at the top of the loop; 0 stands for None
interrupt_vector(in) ==
    IF in.interrupt_40h THEN 64
    ELSE IF in.interrupt_48h THEN 72
    ELSE IF in.interrupt_50h THEN 80
    ELSE IF in.interrupt_58h THEN 88
    ELSE IF in.interrupt_60h THEN 96
    ELSE 0

\* if_mask = !(1 << ((vector - 0x40) / 8)), a u8
if_mask(vector) == BitNot8(2 ^ ((vector - 64) \div 8))

\* A loop that fetches also while halted
after_interrupt_ignores_halt(k) ==
    yield_fetch_byte([k EXCEPT !.gen.fetch = TRUE], "fetch")

\* if halted { cpu_yield!(cpu.nop()); continue; } and the fetch after it:
\* fetch = true; cpu_yield!(cpu.fetch_byte())
after_interrupt(k) ==
    IF k.gen.halted
    THEN cpu_yield(k, cpu_nop, "halt_nop")
    ELSE yield_fetch_byte([k EXCEPT !.gen.fetch = TRUE], "fetch")

\* The top of the loop with the pins of the last resume: the interrupt
\* check, then the halt check, then the fetch.  The locals of the
\* iteration before are dead here.
loop_top(k0, in) ==
    LET k == [k0 EXCEPT !.gen = [cpu_runner_gen EXCEPT !.at = k0.gen.at,
                                                       !.halted = k0.gen.halted,
                                                       !.fetch = k0.gen.fetch]]
        vector == interrupt_vector(in)
    IN  IF vector # 0
        THEN LET k1 == [k EXCEPT !.gen.halted = FALSE]
             IN  IF k1.cpu.ime
                 THEN cpu_yield([k1 EXCEPT !.gen.vector = vector],
                                ReadReq(REG_IF), "int_read")
                 ELSE after_interrupt(k1)
        ELSE after_interrupt(k)

\* An interrupt service routine that leaves ime set
resume_interrupt_keeps_ime(k, in) ==
    LET at == k.gen.at
        pc == k.cpu.registers.pc
    IN  CASE at = "int_read" ->
                cpu_yield(k, WriteReq(REG_IF, BitAnd(in.data, if_mask(k.gen.vector))),
                          "int_write")
          [] at = "int_write" -> yield_push_byte(k, pc \div 256, "int_push_hi")
          [] at = "int_push_hi" -> yield_push_byte(k, pc % 256, "int_push_lo")
          [] at = "int_push_lo" ->
                cpu_yield([k EXCEPT !.cpu.registers = set_pc(@, k.gen.vector)],
                          cpu_nop, "int_nop")
          [] at = "int_nop" -> after_interrupt([k EXCEPT !.gen.vector = 0])

\* The interrupt service routine after its first yield: the write of IF,
\* the two pushes of PC, the jump with ime = false, and the last cycle
resume_interrupt(k, in) ==
    LET at == k.gen.at
        pc == k.cpu.registers.pc
    IN  CASE at = "int_read" ->
                cpu_yield(k, WriteReq(REG_IF, BitAnd(in.data, if_mask(k.gen.vector))),
                          "int_write")
          [] at = "int_write" -> yield_push_byte(k, pc \div 256, "int_push_hi")
          [] at = "int_push_hi" -> yield_push_byte(k, pc % 256, "int_push_lo")
          [] at = "int_push_lo" ->
                cpu_yield([k EXCEPT !.cpu.registers = set_pc(@, k.gen.vector),
                                    !.cpu.ime = FALSE],
                          cpu_nop, "int_nop")
          [] at = "int_nop" -> after_interrupt([k EXCEPT !.gen.vector = 0])


\* A store whose IndHL arm takes no cycle and writes nothing
store_8_bits_without_cycle(k, v, dest, in) ==
    loop_top(IF dest = "IndHL" THEN k
             ELSE [k EXCEPT !.cpu.registers = set_reg8(@, dest, v)], in)

\* store_8_bits!(cpu, v, dest) followed by `continue`: a register store,
\* or for IndHL a yielded write to the address in HL
store_8_bits(k, v, dest, in) ==
    IF dest = "IndHL"
    THEN cpu_yield(k, WriteReq(get_hl(k.cpu.registers), v), "write_hl")
    ELSE loop_top([k EXCEPT !.cpu.registers = set_reg8(@, dest, v)], in)

\* An INC / DEC whose DEC takes its half carry as INC does
inc_dec_8_half_of_inc(k, v, in) ==
    LET op == Opcode(k.gen.opcode)
        f0 == k.cpu.registers.f
        inc == wrapping_add8(v, 1)
        incf == F_set_value(F_unset(F_set_value(f0, ZERO, inc = 0), NEGATIVE),
                            HALFCARRY, BitAnd(v, 15) = 15)
        dec == wrapping_sub8(v, 1)
        decf == F_set_value(F_set(F_set_value(f0, ZERO, dec = 0), NEGATIVE),
                            HALFCARRY, BitAnd(v, 15) = 15)
    IN  IF op.z = 4
        THEN store_8_bits([k EXCEPT !.cpu.registers.f = incf], inc,
                          decode("r", op.y), in)
        ELSE store_8_bits([k EXCEPT !.cpu.registers.f = decf], dec,
                          decode("r", op.y), in)

\* 8 bit INC (z = 4) / DEC (z = 5) once the operand v is known
inc_dec_8(k, v, in) ==
    LET op == Opcode(k.gen.opcode)
        f0 == k.cpu.registers.f
        inc == wrapping_add8(v, 1)
        incf == F_set_value(F_unset(F_set_value(f0, ZERO, inc = 0), NEGATIVE),
                            HALFCARRY, BitAnd(v, 15) = 15)
        dec == wrapping_sub8(v, 1)
        decf == F_set_value(F_set(F_set_value(f0, ZERO, dec = 0), NEGATIVE),
                            HALFCARRY, BitAnd(v, 15) = 0)
    IN  IF op.z = 4
        THEN store_8_bits([k EXCEPT !.cpu.registers.f = incf], inc,
                          decode("r", op.y), in)
        ELSE store_8_bits([k EXCEPT !.cpu.registers.f = decf], dec,
                          decode("r", op.y), in)


\* A CB operation that stores its operand back unchanged, BIT included
cb_operate_stores_operand(k, v, in) ==
    store_8_bits(k, v, decode("r", Opcode(k.gen.cb).z), in)

\* The CB-prefixed operation on the operand v: rotate/shift, BIT, RES, SET
cb_operate(k, v, in) ==
    LET x == Opcode(k.gen.cb).x
        n == Opcode(k.gen.cb).y
        dest == decode("r", Opcode(k.gen.cb).z)
        rot == do_rotate_shift(k.cpu.registers, v, decode("rot", n))
        bitf == F_set(F_unset(F_set_value(k.cpu.registers.f, ZERO,
                                          BitAnd(v, 2 ^ n) = 0),
                              NEGATIVE), HALFCARRY)
    IN  CASE x = 0 -> store_8_bits([k EXCEPT !.cpu.registers = rot.registers],
                                   rot.nv, dest, in)
          [] x = 1 -> loop_top([k EXCEPT !.cpu.registers.f = bitf], in)
          [] x = 2 -> store_8_bits(k, BitAnd(v, BitNot8(2 ^ n)), dest, in)
          [] x = 3 -> store_8_bits(k, BitOr(v, 2 ^ n), dest, in)

\* What follows read_8_bits! once the operand v is known: the rest of
\* INC r, DEC r, LD r,r', the ALU instructions and the CB instructions
after_read_8_bits(k, v, in) ==
    LET op == k.gen.opcode
        x == Opcode(op).x
    IN  CASE x = 0 -> inc_dec_8(k, v, in)
          [] x = 1 -> store_8_bits(k, v, decode("r", Opcode(op).y), in)
          [] x = 2 -> loop_top([k EXCEPT !.cpu.registers =
                                    do_math(@, v, decode("alu", Opcode(op).y))], in)
          [] x = 3 -> cb_operate(k, v, in)

\* read_8_bits!(cpu, dest): a register read, or for IndHL a yielded read of
\* the address in HL whose byte arrives with the next resume
read_8_bits(k, dest, in) ==
    IF dest = "IndHL"
    THEN cpu_yield(k, ReadReq(get_hl(k.cpu.registers)), "read_hl")
    ELSE after_read_8_bits(k, get_reg8(k.cpu.registers, dest), in)

\* new_pc = (pc as i16 + offset) as u16; cpu_yield!(cpu.nop()).  The i16
\* addition overflows across 0x7FFF/0x8000: a panic where overflow is
\* checked, a wrapped sum where it is not.
jr_jump(k, d) ==
    LET sum == I16(k.cpu.registers.pc) + I8(d)
        overflow == sum > 32767 \/ sum < -32768
    IN  IF overflow /\ k.overflow_checks
        THEN cpu_panic(k, "overflow")
        ELSE cpu_yield([k EXCEPT !.cpu.registers = set_pc(@, sum % 65536)],
                       cpu_nop, "nop_end")

\* x = 0: the first quarter of the opcode table
execute_x0(k, in) ==
    LET op == k.gen.opcode
        y == Opcode(op).y
        z == Opcode(op).z
        p == Opcode(op).p
        q == Opcode(op).q
        r == k.cpu.registers
        hl == get_hl(r)
        addend == read_16_bits(r, decode("rp", p))
        ind == CASE p = 0 -> [addr |-> get_bc(r), registers |-> r]
                 [] p = 1 -> [addr |-> get_de(r), registers |-> r]
                 [] p = 2 -> [addr |-> hl,
                              registers |-> set_hl(r, wrapping_add16(hl, 1))]
                 [] p = 3 -> [addr |-> hl,
                              registers |-> set_hl(r, wrapping_sub16(hl, 1))]
        v16 == read_16_bits(r, decode("rp", p))
        keep_carry(f) == F_unset(f, F_bitand(f, F_not(CARRY)))
        rotA(name) ==
            LET rot == do_rotate_shift(r, r.a, name)
            IN  [rot.registers EXCEPT !.a = rot.nv,
                                      !.f = keep_carry(rot.registers.f)]
        unsetNH(f) == F_unset(F_unset(f, NEGATIVE), HALFCARRY)
    IN  CASE z = 0 /\ y = 0 -> loop_top(k, in)
          [] z = 0 /\ y = 1 -> yield_fetch_byte(k, "imm_lo")
          [] z = 0 /\ y = 2 -> loop_top([k EXCEPT !.gen.halted = TRUE], in)
          [] z = 0 /\ y >= 3 -> yield_fetch_byte(k, "imm8")
          [] z = 1 /\ q = 0 -> yield_fetch_byte(k, "imm_lo")
          [] z = 1 /\ q = 1 ->
                cpu_yield([k EXCEPT !.gen.tmp = wrapping_add16(hl, addend),
                                    !.gen.hc = (hl % 4096) + (addend % 4096) >= 4096,
                                    !.gen.cy = hl + addend > 65535],
                          cpu_nop, "add_hl_nop")
          [] z = 2 /\ q = 0 ->
                cpu_yield([k EXCEPT !.cpu.registers = ind.registers],
                          WriteReq(ind.addr, ind.registers.a), "write_end")
          [] z = 2 /\ q = 1 ->
                cpu_yield([k EXCEPT !.cpu.registers = ind.registers],
                          ReadReq(ind.addr), "read_a")
          [] z = 3 /\ q = 0 ->
                cpu_yield([k EXCEPT !.gen.tmp = wrapping_add16(v16, 1)],
                          cpu_nop, "store16_nop")
          [] z = 3 /\ q = 1 ->
                cpu_yield([k EXCEPT !.gen.tmp = wrapping_sub16(v16, 1)],
                          cpu_nop, "store16_nop")
          [] z = 4 -> read_8_bits(k, decode("r", y), in)
          [] z = 5 -> read_8_bits(k, decode("r", y), in)
          [] z = 6 -> yield_fetch_byte(k, "imm8")
          [] z = 7 /\ y = 0 -> loop_top([k EXCEPT !.cpu.registers = rotA("RLC")], in)
          [] z = 7 /\ y = 1 -> loop_top([k EXCEPT !.cpu.registers = rotA("RRC")], in)
          [] z = 7 /\ y = 2 -> loop_top([k EXCEPT !.cpu.registers = rotA("RL")], in)
          [] z = 7 /\ y = 3 -> loop_top([k EXCEPT !.cpu.registers = rotA("RR")], in)
          [] z = 7 /\ y = 4 -> loop_top([k EXCEPT !.cpu.registers = daa(@)], in)
          [] z = 7 /\ y = 5 ->
                loop_top([k EXCEPT !.cpu.registers.a = BitNot8(@),
                                   !.cpu.registers.f =
                                        F_set(F_set(@, NEGATIVE), HALFCARRY)], in)
          [] z = 7 /\ y = 6 ->
                loop_top([k EXCEPT !.cpu.registers.f = F_set(unsetNH(@), CARRY)], in)
          [] z = 7 /\ y = 7 ->
                loop_top([k EXCEPT !.cpu.registers.f =
                              F_set_value(unsetNH(@), CARRY,
                                          ~F_contains(unsetNH(@), CARRY))], in)

\* A change of ime that the next boundary does not see: the opcode after
\* the instruction is fetched before any dispatch
set_ime_after_next_fetch(k, v, in) ==
    after_interrupt([k EXCEPT !.cpu.ime = v])

\* DI and EI: `cpu.ime = v; continue`
set_ime(k, v, in) ==
    loop_top([k EXCEPT !.cpu.ime = v], in)

\* x = 3: the last quarter of the opcode table
execute_x3(k, in) ==
    LET op == k.gen.opcode
        y == Opcode(op).y
        z == Opcode(op).z
        p == Opcode(op).p
        q == Opcode(op).q
        r == k.cpu.registers
        v == read_16_bits(r, decode("rp2", p))
    IN  CASE z = 0 /\ y <= 3 -> cpu_yield(k, cpu_nop, "retcc_nop")
          [] z = 0 /\ y >= 4 -> yield_fetch_byte(k, "imm8")
          [] z = 1 /\ q = 0 -> yield_pop_byte(k, "pop_lo")
          [] z = 1 /\ q = 1 /\ p <= 1 -> yield_pop_byte(k, "ret_lo")
          [] z = 1 /\ q = 1 /\ p = 2 ->
                loop_top([k EXCEPT !.cpu.registers = set_pc(@, get_hl(r))], in)
          [] z = 1 /\ q = 1 /\ p = 3 ->
                cpu_yield([k EXCEPT !.cpu.registers = set_sp(@, get_hl(r))],
                          cpu_nop, "nop_end")
          [] z = 2 /\ y <= 3 -> yield_fetch_byte(k, "imm_lo")
          [] z = 2 /\ y = 4 -> cpu_yield(k, WriteReq(HIGH_PAGE + r.c, r.a), "write_end")
          [] z = 2 /\ y = 6 -> cpu_yield(k, ReadReq(HIGH_PAGE + r.c), "read_a")
          [] z = 2 /\ y \in {5, 7} -> yield_fetch_byte(k, "imm_lo")
          [] z = 3 /\ y = 0 -> yield_fetch_byte(k, "imm_lo")
          [] z = 3 /\ y = 1 -> yield_fetch_byte(k, "cb")
          [] z = 3 /\ y = 6 -> set_ime(k, FALSE, in)
          [] z = 3 /\ y = 7 -> set_ime(k, TRUE, in)
          [] z = 3 /\ y \in 2..5 -> cpu_panic(k, "opcode")
          [] z = 4 /\ y <= 3 -> yield_fetch_byte(k, "imm_lo")
          [] z = 4 /\ y >= 4 -> cpu_panic(k, "opcode")
          [] z = 5 /\ q = 0 ->
                yield_push_byte([k EXCEPT !.gen.tmp = v], v \div 256, "push_hi")
          [] z = 5 /\ q = 1 /\ p = 0 -> yield_fetch_byte(k, "imm_lo")
          [] z = 5 /\ q = 1 /\ p >= 1 -> cpu_panic(k, "opcode")
          [] z = 6 -> yield_fetch_byte(k, "imm8")
          [] z = 7 ->
                yield_push_byte([k EXCEPT !.gen.tmp = y * 8], r.pc \div 256, "push_hi")

\* Decode & execute: the match on opcode.x().  Arm 1 is HALT and the
\* 8-bit register-to-register LD, arm 2 the ALU instructions on A.
execute(k, in) ==
    LET op == Opcode(k.gen.opcode)
    IN  CASE op.x = 0 -> execute_x0(k, in)
          [] op.x = 1 /\ op.z = 6 /\ op.y = 6 ->
                loop_top([k EXCEPT !.gen.halted = TRUE], in)
          [] op.x = 1 -> read_8_bits(k, decode("r", op.z), in)
          [] op.x = 2 -> read_8_bits(k, decode("r", op.z), in)
          [] op.x = 3 -> execute_x3(k, in)


\* A fetch whose resume leaves `fetch` set
resume_fetch_keeps_flag(k, in) ==
    execute([k EXCEPT !.gen.opcode = in.data], in)

\* The resume after the opcode fetch: fetch = false, the opcode is latched
resume_fetch(k, in) ==
    execute([k EXCEPT !.gen.fetch = FALSE, !.gen.opcode = in.data], in)

\* The flags of ADD SP,n and LD HL,SP+d: EMPTY with CARRY and HALFCARRY
sp_offset_flags(carry, halfcarry) ==
    F_set_value(F_set_value(EMPTY, CARRY, carry), HALFCARRY, halfcarry)

\* The resume after the fetch of a one-byte operand n
resume_imm8(k, in) ==
    LET op == k.gen.opcode
        x == Opcode(op).x
        y == Opcode(op).y
        z == Opcode(op).z
        r == k.cpu.registers
        n == in.data
        n16 == SignExtend(n)
        sp_sum == [k EXCEPT !.gen.tmp = wrapping_add16(r.sp, n16),
                            !.gen.cy = (r.sp % 256) + (n16 % 256) >= 256,
                            !.gen.hc = (r.sp % 16) + (n16 % 16) >= 16]
    IN  CASE x = 0 /\ z = 0 /\ y = 3 -> jr_jump(k, n)
          [] x = 0 /\ z = 0 /\ y >= 4 ->
                IF test_condition(r, decode("cc", y - 4))
                THEN jr_jump(k, n)
                ELSE loop_top(k, in)
          [] x = 0 /\ z = 6 -> store_8_bits(k, n, decode("r", y), in)
          [] x = 3 /\ z = 0 /\ y = 4 ->
                cpu_yield(k, WriteReq(HIGH_PAGE + n, r.a), "write_end")
          [] x = 3 /\ z = 0 /\ y = 5 -> cpu_yield(sp_sum, cpu_nop, "add_sp_nop")
          [] x = 3 /\ z = 0 /\ y = 6 ->
                cpu_yield(k, ReadReq(HIGH_PAGE + n), "read_a")
          [] x = 3 /\ z = 0 /\ y = 7 -> cpu_yield(sp_sum, cpu_nop, "ld_hl_sp_nop")
          [] x = 3 /\ z = 6 ->
                loop_top([k EXCEPT !.cpu.registers =
                              do_math(@, n, decode("alu", y))], in)

\* The resume after the fetch of the low byte of a two-byte operand
resume_imm_lo(k, in) ==
    yield_fetch_byte([k EXCEPT !.gen.low = in.data], "imm_hi")

\* CALL nn and a taken CALL cc,nn after the operand: push PC high
call_push(k, addr) ==
    yield_push_byte([k EXCEPT !.gen.tmp = addr],
                    k.cpu.registers.pc \div 256, "push_hi")

\* JP nn: the jump is made in the resume that delivers the high byte
jp_nn(k, addr, in) ==
    loop_top([k EXCEPT !.cpu.registers = set_pc(@, addr)], in)

\* The resume after the fetch of the high byte: addr = (high << 8) | low
resume_imm_hi(k, in) ==
    LET op == k.gen.opcode
        x == Opcode(op).x
        y == Opcode(op).y
        z == Opcode(op).z
        r == k.cpu.registers
        addr == BitOr(in.data * 256, k.gen.low)
        taken == test_condition(r, decode("cc", y))
    IN  CASE x = 0 /\ z = 0 ->
                cpu_yield([k EXCEPT !.gen.tmp = addr],
                          WriteReq(addr, r.sp % 256), "ldnnsp_w1")
          [] x = 0 /\ z = 1 ->
                loop_top([k EXCEPT !.cpu.registers =
                              store_16_bits(@, addr, decode("rp", Opcode(op).p))], in)
          [] x = 3 /\ z = 2 /\ y <= 3 ->
                IF taken
                THEN cpu_yield([k EXCEPT !.cpu.registers = set_pc(@, addr)],
                               cpu_nop, "nop_end")
                ELSE loop_top(k, in)
          [] x = 3 /\ z = 2 /\ y = 5 -> cpu_yield(k, WriteReq(addr, r.a), "write_end")
          [] x = 3 /\ z = 2 /\ y = 7 -> cpu_yield(k, ReadReq(addr), "read_a")
          [] x = 3 /\ z = 3 -> jp_nn(k, addr, in)
          [] x = 3 /\ z = 4 -> IF taken THEN call_push(k, addr) ELSE loop_top(k, in)
          [] x = 3 /\ z = 5 -> call_push(k, addr)

\* LD (nn),SP after its first write: write_byte(addr + 1, sp_hi), where
\* addr + 1 is an unchecked u16 addition
resume_ldnnsp_w1(k) ==
    IF k.gen.tmp = 65535 /\ k.overflow_checks
    THEN cpu_panic(k, "overflow")
    ELSE cpu_yield(k, WriteReq((k.gen.tmp + 1) % 65536,
                               k.cpu.registers.sp \div 256), "write_end")

\* The resume after the fetch of the second byte of a CB instruction
resume_cb(k, in) ==
    LET k1 == [k EXCEPT !.gen.cb = in.data]
    IN  read_8_bits(k1, decode("r", Opcode(in.data).z), in)

\* RET cc after its first internal cycle; RET, RETI and a taken RET cc:
\* the two reads, the pause and the jump (RETI sets ime)
resume_ret(k, in) ==
    LET at == k.gen.at
        op == Opcode(k.gen.opcode)
    IN  CASE at = "retcc_nop" ->
                IF test_condition(k.cpu.registers, decode("cc", op.y))
                THEN yield_pop_byte(k, "ret_lo")
                ELSE loop_top(k, in)
          [] at = "ret_lo" ->
                yield_pop_byte([k EXCEPT !.gen.low = in.data,
                                         !.cpu.registers.sp = wrapping_add16(@, 1)],
                               "ret_hi")
          [] at = "ret_hi" ->
                cpu_yield([k EXCEPT !.gen.tmp = BitOr(in.data * 256, k.gen.low),
                                    !.cpu.registers.sp = wrapping_add16(@, 1)],
                          cpu_nop, "ret_nop")
          [] at = "ret_nop" ->
                loop_top([k EXCEPT !.cpu.registers = set_pc(@, k.gen.tmp),
                                   !.cpu.ime = IF op.z = 1 /\ op.p = 1
                                               THEN TRUE ELSE @], in)

\* POP rr: the two reads and the store
resume_pop(k, in) ==
    LET r == [k.cpu.registers EXCEPT !.sp = wrapping_add16(@, 1)]
        v == BitOr(in.data * 256, k.gen.low)
    IN  IF k.gen.at = "pop_lo"
        THEN yield_pop_byte([k EXCEPT !.gen.low = in.data, !.cpu.registers = r],
                            "pop_hi")
        ELSE loop_top([k EXCEPT !.cpu.registers =
                           store_16_bits(r, v, decode("rp2", Opcode(k.gen.opcode).p))],
                      in)

\* PUSH rr, CALL and RST after the write of the high byte: the write of
\* the low byte of the pushed word (the register pair, or PC); after that
\* PUSH is complete, CALL and RST set PC and pause for a cycle
resume_push(k, in) ==
    LET op == Opcode(k.gen.opcode)
        is_push == op.z = 5 /\ op.q = 0
        word == IF is_push THEN k.gen.tmp ELSE k.cpu.registers.pc
    IN  IF k.gen.at = "push_hi"
        THEN yield_push_byte(k, word % 256, "push_lo")
        ELSE IF is_push
        THEN loop_top(k, in)
        ELSE cpu_yield([k EXCEPT !.cpu.registers = set_pc(@, k.gen.tmp)],
                       cpu_nop, "nop_end")

\* The same, with an ADD HL,rr that stores the sum and leaves F alone
resume_pause_add_keeps_flags(k, in) ==
    LET at == k.gen.at
        r == k.cpu.registers
        spf == sp_offset_flags(k.gen.cy, k.gen.hc)
    IN  CASE at = "add_hl_nop" ->
                loop_top([k EXCEPT !.cpu.registers = set_hl(r, k.gen.tmp)], in)
          [] at = "store16_nop" ->
                loop_top([k EXCEPT !.cpu.registers =
                              store_16_bits(r, k.gen.tmp,
                                            decode("rp", Opcode(k.gen.opcode).p))], in)
          [] at = "add_sp_nop" ->
                cpu_yield([k EXCEPT !.cpu.registers =
                               [set_sp(r, k.gen.tmp) EXCEPT !.f = spf]],
                          cpu_nop, "nop_end")
          [] at = "ld_hl_sp_nop" ->
                loop_top([k EXCEPT !.cpu.registers =
                              [set_hl(r, k.gen.tmp) EXCEPT !.f = spf]], in)

\* What follows the internal cycle of ADD HL,rr, of INC rr / DEC rr, the
\* first pause of ADD SP,n (a store, then a second pause) and the pause of
\* LD HL,SP+d
resume_pause(k, in) ==
    LET at == k.gen.at
        r == k.cpu.registers
        f == F_set_value(F_set_value(F_unset(r.f, NEGATIVE),
                                     HALFCARRY, k.gen.hc), CARRY, k.gen.cy)
        spf == sp_offset_flags(k.gen.cy, k.gen.hc)
    IN  CASE at = "add_hl_nop" ->
                loop_top([k EXCEPT !.cpu.registers =
                              set_hl([r EXCEPT !.f = f], k.gen.tmp)], in)
          [] at = "store16_nop" ->
                loop_top([k EXCEPT !.cpu.registers =
                              store_16_bits(r, k.gen.tmp,
                                            decode("rp", Opcode(k.gen.opcode).p))], in)
          [] at = "add_sp_nop" ->
                cpu_yield([k EXCEPT !.cpu.registers =
                               [set_sp(r, k.gen.tmp) EXCEPT !.f = spf]],
                          cpu_nop, "nop_end")
          [] at = "ld_hl_sp_nop" ->
                loop_top([k EXCEPT !.cpu.registers =
                              [set_hl(r, k.gen.tmp) EXCEPT !.f = spf]], in)

\* LD A,(..) after its read
resume_read_a(k, in) ==
    loop_top([k EXCEPT !.cpu.registers.a = in.data], in)

\* CpuRunner::clock(pins): one resume of the coroutine with the input
\* pins `in`, from the resume point it was suspended at; the yielded cpu
\* and request replace the runner's
CpuRunner_clock(k, in) ==
    LET at == k.gen.at
    IN  CASE at \in {"start", "halt_nop", "write_hl", "write_end", "nop_end"} ->
                loop_top(k, in)
          [] at \in {"int_read", "int_write", "int_push_hi", "int_push_lo",
                     "int_nop"} -> resume_interrupt(k, in)
          [] at = "fetch" -> resume_fetch(k, in)
          [] at = "imm8" -> resume_imm8(k, in)
          [] at = "imm_lo" -> resume_imm_lo(k, in)
          [] at = "imm_hi" -> resume_imm_hi(k, in)
          [] at = "ldnnsp_w1" -> resume_ldnnsp_w1(k)
          [] at = "cb" -> resume_cb(k, in)
          [] at = "read_hl" -> after_read_8_bits(k, in.data, in)
          [] at \in {"retcc_nop", "ret_lo", "ret_hi", "ret_nop"} -> resume_ret(k, in)
          [] at \in {"pop_lo", "pop_hi"} -> resume_pop(k, in)
          [] at \in {"push_hi", "push_lo"} -> resume_push(k, in)
          [] at \in {"add_hl_nop", "store16_nop", "add_sp_nop", "ld_hl_sp_nop"} ->
                resume_pause(k, in)
          [] at = "read_a" -> resume_read_a(k, in)

---------------------------------------------------------------------------
(* Observations.  `last` names the operation performed last and its        *)
(* inputs; `obs` counts dots and operations; `dmaObs` counts the           *)
(* clock_dma calls of the transfer started last.                           *)

NoReq == [kind |-> "None", addr |-> 0, data |-> 0]

\* `stat` is the STAT byte and `pre` the register file before the
\* operation; oam_kept says that a resume of the PPU coroutine left the OAM
\* bytes as they were; `entry` is the OamEntry a call of PpuState::oam
\* returned
LastInit ==
    [op |-> "init", req |-> NoReq, wrote |-> -1, stat |-> 0, irq |-> 0,
     arg |-> "", val |-> 0, pre |-> Registers_default, oam_kept |-> TRUE,
     entry |-> OamEntry_offscreen]

ObsInit ==
    [dots |-> 0, ios |-> 0, ops |-> 0,
     lineDots |-> 0, lastLine |-> 0,
     frameDots |-> 0, lastFrame |-> 0,
     frameLines |-> 0, lastFrameLines |-> 0,
     scan |-> <<>>, winLines |-> 0,
     modes |-> <<>>, lastModes |-> <<>>, lyFrom |-> -1,
     fetched |-> <<>>, fetchDots |-> 0,
     frameSwaps |-> 0, front |-> PpuState_new.frame]

DmaObsInit == [starts |-> 0, page |-> 0, calls |-> 0]

\* The requests of the CPU are grouped in segments: an instruction (from
\* its opcode fetch to the request before the next segment), an interrupt
\* dispatch (from its read of IF) or a halted cycle.  `seg` is the segment
\* under way: its requests, the bytes delivered to it, the Cpu and the
\* asserted vectors when it began, and whether an input delivered inside
\* it (one that did not end it) asserted a line (`interior`).  `done` is
\* the segment completed last,
\* with the Cpu when it ended.  `asleep` says that the byte delivered to
\* an opcode fetch was HALT or STOP and no input has asserted a line since
\* (that input included); `sleep_cpu` is the Cpu from then; `woken` says
\* that the input of the last clock was the first to assert a line.
NoSegment(c) ==
    [kind |-> "none", reqs |-> <<>>, ins |-> <<>>, pre |-> c, post |-> c,
     lines |-> {}, interior |-> FALSE]

TraceInit(c) ==
    [seg |-> NoSegment(c), done |-> NoSegment(c), clocks |-> 0,
     asleep |-> FALSE, woken |-> FALSE, sleep_cpu |-> c]

InterruptVectors == {64, 72, 80, 88, 96}

\* The vectors whose line the input asserts
Lines(in) ==
    {v \in InterruptVectors :
        \/ v = 64 /\ in.interrupt_40h
        \/ v = 72 /\ in.interrupt_48h
        \/ v = 80 /\ in.interrupt_50h
        \/ v = 88 /\ in.interrupt_58h
        \/ v = 96 /\ in.interrupt_60h}

\* The input pins with byte d and exactly the lines of ls asserted
InputPins(d, ls) ==
    CpuInputPins(d, 64 \in ls, 72 \in ls, 80 \in ls, 88 \in ls, 96 \in ls)

NoLines(d) == InputPins(d, {})

HALT == 118     \* 0x76
STOP == 16      \* 0x10

\* The Cpu at the top of the loop, seen from the first yield after it: the
\* opcode fetch has advanced pc by one, the other two yields change nothing
Boundary(k) ==
    IF k.gen.at = "fetch"
    THEN [k.cpu EXCEPT !.registers.pc = wrapping_sub16(@, 1)]
    ELSE k.cpu

SegmentKind(at) ==
    CASE at = "fetch" -> "instr"
      [] at = "int_read" -> "dispatch"
      [] at = "halt_nop" -> "halt"

\* The trace after a clock with input `in` that took the runner from k0
\* to k
Observe(t, k0, k, in) ==
    LET ins == Append(t.seg.ins, in.data)
        starts == k.gen.at \in {"fetch", "int_read", "halt_nop"}
        sleeps == /\ Lines(in) = {}
                  /\ \/ t.asleep
                     \/ k0.out.is_fetch_cycle /\ in.data \in {HALT, STOP}
    IN  IF k.panic # ""
        THEN [t EXCEPT !.seg.ins = ins, !.clocks = @ + 1,
                       !.asleep = FALSE, !.woken = FALSE]
        ELSE [seg |-> IF starts
                      THEN [kind |-> SegmentKind(k.gen.at), reqs |-> <<k.out>>,
                            ins |-> <<>>, pre |-> Boundary(k), post |-> Boundary(k),
                            lines |-> Lines(in), interior |-> FALSE]
                      ELSE [t.seg EXCEPT !.reqs = Append(@, k.out), !.ins = ins,
                                         !.interior = @ \/ Lines(in) # {}],
              done |-> IF starts
                       THEN [t.seg EXCEPT !.ins = ins, !.post = Boundary(k)]
                       ELSE t.done,
              clocks |-> t.clocks + 1,
              asleep |-> sleeps,
              woken |-> t.asleep /\ Lines(in) # {},
              sleep_cpu |-> IF sleeps /\ ~t.asleep THEN k.cpu
                            ELSE IF sleeps \/ t.asleep THEN t.sleep_cpu
                            ELSE k.cpu]

\* The dot counters after a resume that left the coroutine in state g:
\* lastLine is the number of dots between the last two set_ly calls,
\* lastFrame the number of dots between the last two set_ly(0) calls, and
\* lastFrameLines the number of set_ly calls between them.  `scan` lists
\* the steps of the OAM search of the scanline: the index of the entry the
\* resume examined, the entry as PpuState::oam returns it in that resume,
\* and the number of dots of the scanline that had gone by before it.
\* winLines counts the scanlines of the frame that left their draw loop
\* with the window entered.  `modes` lists the STAT modes the scanline has
\* shown at its dot boundaries, a mode being listed when it differs from
\* the one at the boundary before; lastModes is the list of the scanline
\* before and lyFrom the LY that scanline had (-1 on the first scanline).  `p` is the PpuState the
\* resume began with and `r` what gen_resume made of it.  `fetched` lists
\* the buffer slots dispatched to the sprite fetcher on the scanline and
\* fetchDots counts the dots of the scanline that ended at a sprite-fetch
\* yield.  frameSwaps counts the calls of swap_frames since the frame
\* began and `front` is the front buffer as the last swap (or new()) left
\* it.
DotCount(o, p, r) ==
    LET g == r.gen
        mode == STAT_mode(r.ppu.stat)
    IN
    [o EXCEPT
        !.frameSwaps = IF g.frame_started THEN 0
                       ELSE IF g.swapped THEN o.frameSwaps + 1
                       ELSE o.frameSwaps,
        !.front = IF g.swapped THEN r.ppu.frame ELSE o.front,
        !.fetched = IF g.ly_advanced THEN <<>>
                    ELSE IF g.pc = "sprite" /\ g.fetch_k = 1
                    THEN Append(o.fetched, g.fetch_slot)
                    ELSE o.fetched,
        !.fetchDots = IF g.ly_advanced THEN 0
                      ELSE IF g.pc = "sprite" THEN o.fetchDots + 1
                      ELSE o.fetchDots,
        !.modes = IF g.ly_advanced THEN <<mode>>
                  ELSE IF o.modes # <<>> /\ o.modes[Len(o.modes)] = mode THEN o.modes
                  ELSE Append(o.modes, mode),
        !.lastModes = IF g.ly_advanced THEN o.modes ELSE o.lastModes,
        !.lyFrom = IF g.ly_advanced /\ o.dots > 0 THEN p.ly ELSE o.lyFrom,
        !.winLines = IF g.frame_started THEN 0
                     ELSE IF g.draw_ended /\ g.window_drawn THEN o.winLines + 1
                     ELSE o.winLines,
        !.scan = IF g.pc = "oam_a"
                 THEN Append(IF g.ly_advanced THEN <<>> ELSE o.scan,
                             [index |-> g.entry, read |-> oam_entry(p, g.entry),
                              at |-> IF g.ly_advanced THEN 0 ELSE o.lineDots])
                 ELSE o.scan,
        !.dots = o.dots + 1,
        !.lineDots = IF g.ly_advanced THEN 1 ELSE o.lineDots + 1,
        !.lastLine = IF g.ly_advanced THEN o.lineDots ELSE o.lastLine,
        !.frameDots = IF g.frame_started THEN 1 ELSE o.frameDots + 1,
        !.lastFrame = IF g.frame_started THEN o.frameDots ELSE o.lastFrame,
        !.frameLines = IF g.frame_started THEN 1
                       ELSE IF g.ly_advanced THEN o.frameLines + 1
                       ELSE o.frameLines,
        !.lastFrameLines = IF g.frame_started THEN o.frameLines
                           ELSE o.lastFrameLines]

---------------------------------------------------------------------------
(* ppu/execute/mod.rs: the tile data addresses.  A usize is kept as its    *)
(* 16-bit limbs, lowest first (four limbs: a 64-bit target), so that the   *)
(* sign extension of `as usize` and the carry out of the addition are      *)
(* computed.  An address is returned as [limbs, panic]; `checks` says      *)
(* whether the build has overflow checks.                                  *)

USIZE_LIMBS == 4

\* `v as usize` for v: u8 / u16
usize_from(v) == [i \in 1 .. USIZE_LIMBS |-> IF i = 1 THEN v ELSE 0]

\* `v as usize` for v: i16 (sign extension)
usize_from_i16(v) ==
    [i \in 1 .. USIZE_LIMBS |->
        IF v >= 0 THEN (IF i = 1 THEN v ELSE 0)
        ELSE (IF i = 1 THEN v + 65536 ELSE 65535)]

\* the carry into limb i of a + b
RECURSIVE usize_carry(_, _, _)
usize_carry(a, b, i) ==
    IF i = 1 THEN 0 ELSE (a[i - 1] + b[i - 1] + usize_carry(a, b, i - 1)) \div 65536

\* a + b on usize: the wrapped sum and whether it overflowed
usize_add(a, b) ==
    [limbs |-> [i \in 1 .. USIZE_LIMBS |-> (a[i] + b[i] + usize_carry(a, b, i)) % 65536],
     overflow |-> usize_carry(a, b, USIZE_LIMBS + 1) = 1]

\* the carry into limb i of a * n
RECURSIVE usize_mul_carry(_, _, _)
usize_mul_carry(a, n, i) ==
    IF i = 1 THEN 0 ELSE (a[i - 1] * n + usize_mul_carry(a, n, i - 1)) \div 65536

\* a * n on usize, n a small literal
usize_mul(a, n) ==
    [limbs |-> [i \in 1 .. USIZE_LIMBS |-> (a[i] * n + usize_mul_carry(a, n, i)) % 65536],
     overflow |-> usize_mul_carry(a, n, USIZE_LIMBS + 1) > 0]

\* the number a usize stands for when it is below 65536, else -1
usize_value(a) == IF \A i \in 2 .. USIZE_LIMBS : a[i] = 0 THEN a[1] ELSE -1

\* PpuState::bg_tile_data_address: `tile_no as usize * 16`, or
\* `0x1000 + (tile_no as i8 as i16 * 16) as usize`
bg_tile_data_address(p, tile_no, checks) ==
    IF flags_contains(p.lcdc, BG_TILE_DATA_AREA)
    THEN LET m == usize_mul(usize_from(tile_no), 16)
         IN  [limbs |-> m.limbs, panic |-> m.overflow /\ checks]
    ELSE LET offset == I16(U16(I8(tile_no) * 16))
             sum == usize_add(usize_from(4096), usize_from_i16(offset))
         IN  [limbs |-> sum.limbs, panic |-> sum.overflow /\ checks]

\* PpuState::sprite_tile_data_address: `tile_no as usize * 16`
sprite_tile_data_address(p, tile_no, checks) ==
    LET m == usize_mul(usize_from(tile_no), 16)
    IN  [limbs |-> m.limbs, panic |-> m.overflow /\ checks]

---------------------------------------------------------------------------
(* Actions: one per handler call or coroutine resume.                      *)

\* One resume of the PPU coroutine (one dot).
PpuDot ==
    LET r == gen_resume(ppu, gen)
    IN  /\ ppu' = r.ppu
        /\ gen' = r.gen
        /\ obs' = DotCount(obs, ppu, r)
        /\ last' = [LastInit EXCEPT !.op = "dot", !.oam_kept = (r.ppu.oam = ppu.oam)]
        /\ UNCHANGED <<data_out, if_reg, pins, cpu, dmaObs, run, trace>>

\* One call of PpuState::perform_io with the request req and the IF byte
\* irq behind `interrupt_request`.  `wrote` is the byte written by the call
\* before, when that call wrote to the address this call reads.
PerformIoIrq(req, irq) ==
    LET r == perform_io(ppu, req, data_out, irq)
        follows == /\ req.kind = "Read"
                   /\ last.op = "io"
                   /\ last.req.kind = "Write"
                   /\ last.req.addr = req.addr
    IN  /\ ppu' = r.ppu
        /\ data_out' = r.data
        /\ if_reg' = r.irq
        /\ last' = [LastInit EXCEPT !.op = "io", !.req = req, !.stat = ppu.stat,
                                    !.irq = irq,
                                    !.wrote = IF follows THEN last.req.data ELSE -1]
        /\ obs' = [obs EXCEPT !.ios = obs.ios + 1]
        /\ dmaObs' = IF req.kind = "Write" /\ req.addr = REG_DMA
                     THEN [starts |-> dmaObs.starts + 1, page |-> req.data, calls |-> 0]
                     ELSE dmaObs
        /\ UNCHANGED <<gen, pins, cpu, run, trace>>

\* The call when the IF byte is the one the call before left
PerformIo(req) == PerformIoIrq(req, if_reg)

\* One call of PpuState::clock_dma while a transfer is in progress.  The
\* input pins carry the byte the memory returned for the request of the
\* call before.
ClockDma ==
    /\ ppu.dma_transfer.state # "Inactive"
    /\ LET r == clock_dma(ppu, Memory_index(pins.addr))
       IN  /\ ppu' = r.ppu
           /\ pins' = r.pins
    /\ dmaObs' = [dmaObs EXCEPT !.calls = dmaObs.calls + 1]
    /\ last' = [LastInit EXCEPT !.op = "dma"]
    /\ UNCHANGED <<gen, data_out, if_reg, cpu, obs, run, trace>>

\* Cpu::store_16_bits(v, dest): LD rr,nn and POP rr
Store16(dest, v) ==
    /\ cpu' = store_16_bits(cpu, v, dest)
    /\ last' = [LastInit EXCEPT !.op = "store_16_bits", !.arg = dest,
                                !.val = v, !.pre = cpu]
    /\ obs' = [obs EXCEPT !.ops = obs.ops + 1]
    /\ UNCHANGED <<ppu, gen, data_out, if_reg, pins, dmaObs, run, trace>>

\* Registers::set_pc(v): jumps, calls and returns
SetPc(v) ==
    /\ cpu' = set_pc(cpu, v)
    /\ last' = [LastInit EXCEPT !.op = "set_pc", !.val = v, !.pre = cpu]
    /\ obs' = [obs EXCEPT !.ops = obs.ops + 1]
    /\ UNCHANGED <<ppu, gen, data_out, if_reg, pins, dmaObs, run, trace>>

\* The FRegister operations applied to registers.f; the operand is an
\* FRegister built from the byte v.
FlagOps == {"from", "bitor", "bitand", "not", "set", "unset",
            "set_value_true", "set_value_false"}

FlagOpResult(f, name, v) ==
    CASE name = "from" -> F_from(v)
      [] name = "bitor" -> F_bitor(f, F_from(v))
      [] name = "bitand" -> F_bitand(f, F_from(v))
      [] name = "not" -> F_not(f)
      [] name = "set" -> F_set(f, F_from(v))
      [] name = "unset" -> F_unset(f, F_from(v))
      [] name = "set_value_true" -> F_set_value(f, F_from(v), TRUE)
      [] name = "set_value_false" -> F_set_value(f, F_from(v), FALSE)

FlagOp(name, v) ==
    /\ cpu' = [cpu EXCEPT !.f = FlagOpResult(cpu.f, name, v)]
    /\ last' = [LastInit EXCEPT !.op = "flag", !.arg = name, !.val = v, !.pre = cpu]
    /\ obs' = [obs EXCEPT !.ops = obs.ops + 1]
    /\ UNCHANGED <<ppu, gen, data_out, if_reg, pins, dmaObs, run, trace>>

\* Cpu::do_math(v, operation): the ALU instructions on A
DoMath(operation, v) ==
    /\ cpu' = do_math(cpu, v, operation)
    /\ last' = [LastInit EXCEPT !.op = "do_math", !.arg = operation,
                                !.val = v, !.pre = cpu]
    /\ obs' = [obs EXCEPT !.ops = obs.ops + 1]
    /\ UNCHANGED <<ppu, gen, data_out, if_reg, pins, dmaObs, run, trace>>

\* PpuState::bg_tile_data_address(tile_no) and
\* PpuState::sprite_tile_data_address(tile_no) in the build of `run`; `val`
\* is the tile number, `wrote` the address returned (-1 when it is 65536 or
\* more, or when the call panicked) and `arg` says whether it panicked
TileAddressResult(name, tile_no, r) ==
    [LastInit EXCEPT !.op = name, !.val = tile_no,
                     !.arg = IF r.panic THEN "overflow" ELSE "",
                     !.wrote = IF r.panic THEN -1 ELSE usize_value(r.limbs)]

BgTileDataAddress(tile_no) ==
    /\ last' = TileAddressResult("bg_tile_data_address", tile_no,
                                 bg_tile_data_address(ppu, tile_no, run.overflow_checks))
    /\ obs' = [obs EXCEPT !.ops = obs.ops + 1]
    /\ UNCHANGED <<ppu, gen, data_out, if_reg, pins, cpu, dmaObs, run, trace>>

SpriteTileDataAddress(tile_no) ==
    /\ last' = TileAddressResult("sprite_tile_data_address", tile_no,
                                 sprite_tile_data_address(ppu, tile_no, run.overflow_checks))
    /\ obs' = [obs EXCEPT !.ops = obs.ops + 1]
    /\ UNCHANGED <<ppu, gen, data_out, if_reg, pins, cpu, dmaObs, run, trace>>

\* One call of PpuState::oam(index); `arg` is the panic of the call
OamCall(index) ==
    LET r == oam(ppu, index)
    IN  /\ last' = [LastInit EXCEPT !.op = "oam", !.val = index, !.arg = r.panic,
                                    !.entry = r.entry]
        /\ obs' = [obs EXCEPT !.ops = obs.ops + 1]
        /\ UNCHANGED <<ppu, gen, data_out, if_reg, pins, cpu, dmaObs, run, trace>>

\* One call of CpuRunner::clock with the input pins `in`.  A panic ends
\* the run: no later call is made.
CpuClock(in) ==
    /\ run.panic = ""
    /\ run' = CpuRunner_clock(run, in)
    /\ trace' = Observe(trace, run, run', in)
    /\ UNCHANGED <<ppu, gen, data_out, if_reg, pins, cpu, last, dmaObs, obs>>

---------------------------------------------------------------------------
(* Specifications.  Each one starts from the constructed machine and       *)
(* drives part of it; the inputs are drawn from the small sets below.      *)

InitMachine ==
    /\ ppu = PpuState_new
    /\ gen = gen_new
    /\ data_out = 0
    /\ if_reg = 0
    /\ pins = ReadReq(0)
    /\ cpu = Registers_default
    /\ last = LastInit
    /\ dmaObs = DmaObsInit
    /\ obs = ObsInit
    /\ run = CpuRunner_new(Registers_default, FALSE, FALSE)
    /\ trace = TraceInit(run.cpu)

\* A register file whose ten registers all differ
RegsSample ==
    [a |-> 18, f |-> 176, b |-> 52, c |-> 86, d |-> 120, e |-> 154,
     h |-> 188, l |-> 222, sp |-> 65534, pc |-> 256]

(* SpecRegs: the register file under 16-bit stores, jumps, flag            *)
(* operations and ALU instructions.                                        *)

MaxRegOps == 2
LoadDest16Bit == {"AF", "BC", "DE", "HL", "SP"}
RegWords == {0, 4660, 14863, 43981, 65535}     \* 0x1234, 0x3A0F, 0xABCD
RegBytes == {0, 15, 16, 165, 255}               \* 0x0F, 0x10, 0xA5
RegOperands == {0, 1, 15, 198, 255}

InitRegs ==
    /\ ppu = PpuState_new
    /\ gen = gen_new
    /\ data_out = 0
    /\ if_reg = 0
    /\ pins = ReadReq(0)
    /\ cpu \in {Registers_default, RegsSample}
    /\ last = LastInit
    /\ dmaObs = DmaObsInit
    /\ obs = ObsInit
    /\ run = CpuRunner_new(Registers_default, FALSE, FALSE)
    /\ trace = TraceInit(run.cpu)

NextRegs ==
    \/ \E dest \in LoadDest16Bit, v \in RegWords :
          obs.ops < MaxRegOps /\ Store16(dest, v)
    \/ \E v \in RegWords : obs.ops < MaxRegOps /\ SetPc(v)
    \/ \E name \in FlagOps, v \in RegBytes :
          obs.ops < MaxRegOps /\ FlagOp(name, v)
    \/ \E operation \in MathOperation, v \in RegOperands :
          obs.ops < MaxRegOps /\ DoMath(operation, v)

SpecRegs == InitRegs /\ [][NextRegs]_vars

(* SpecAlu: do_math as a function of its inputs.  Init draws the          *)
(* accumulator from all bytes and F with the carry clear and set; the      *)
(* action applies one operation to that register file.                     *)

AluFlags == {0, 16, 224, 240}
AluOperands == {0, 1, 15, 16, 56, 58, 127, 128, 198, 240, 255}

InitAlu ==
    /\ ppu = PpuState_new
    /\ gen = gen_new
    /\ data_out = 0
    /\ if_reg = 0
    /\ pins = ReadReq(0)
    /\ cpu \in {[RegsSample EXCEPT !.a = a, !.f = f] : a \in Bytes, f \in AluFlags}
    /\ last = LastInit
    /\ dmaObs = DmaObsInit
    /\ obs = ObsInit
    /\ run = CpuRunner_new(Registers_default, FALSE, FALSE)
    /\ trace = TraceInit(run.cpu)

NextAlu ==
    \E operation \in MathOperation, v \in AluOperands :
        last.op = "init" /\ DoMath(operation, v)

SpecAlu == InitAlu /\ [][NextAlu]_vars

(* SpecDma: OAM DMA transfers started by writes to 0xFF46, clocked by      *)
(* clock_dma, with reads of 0xFF46 in between.                             *)

MaxDmaStarts == 1
MaxDmaReads == 1
DmaPages == {192, 209}      \* 0xC0 (work_ram_1), 0xD1 (work_ram_2)

InitDma == InitMachine

NextDma ==
    \/ \E v \in DmaPages :
          dmaObs.starts < MaxDmaStarts /\ PerformIo(WriteReq(REG_DMA, v))
    \/ obs.ios - dmaObs.starts < MaxDmaReads /\ PerformIo(ReadReq(REG_DMA))
    \/ ClockDma

SpecDma == InitDma /\ [][NextDma]_vars

(* SpecDmaRestart: transfers from the first page, a work RAM page and the  *)
(* last page, a second write to 0xFF46 before, early in, late in and after *)
(* the first transfer, and reads of 0xFF46 at chosen points.               *)

MaxRestartStarts == 2
MaxRestartReads == 1
RestartPages == {0, 192, 255}
RestartAt == {0, 1, 2, 100, 160, 161}
RestartReadAt == {0, 1, 80, 160, 161}

InitDmaRestart == InitMachine

NextDmaRestart ==
    \/ \E v \in RestartPages :
          /\ dmaObs.starts < MaxRestartStarts
          /\ dmaObs.starts > 0 => dmaObs.calls \in RestartAt
          /\ PerformIo(WriteReq(REG_DMA, v))
    \/ /\ obs.ios - dmaObs.starts < MaxRestartReads
       /\ dmaObs.calls \in RestartReadAt
       /\ PerformIo(ReadReq(REG_DMA))
    \/ ClockDma

SpecDmaRestart == InitDmaRestart /\ [][NextDmaRestart]_vars

(* SpecFrame: the PPU coroutine resumed dot after dot, for a little more   *)
(* than one frame, on a machine whose registers and OAM were set up by     *)
(* perform_io writes before the first resume.                              *)

MaxFrameDots == 70400
FrameSetups == {"plain", "scroll", "sprite", "window"}

\* the writes of each setup: SCX = 5; OAM entry 0 at ypos 16, xpos 8;
\* LCDC = 0xB1 (window enabled), WY = 2, WX = 87
SetupWrites(name) ==
    CASE name = "plain" -> <<>>
      [] name = "scroll" -> <<WriteReq(REG_SCX, 5)>>
      [] name = "sprite" -> <<WriteReq(OAM_BASE, 16), WriteReq(OAM_BASE + 1, 8)>>
      [] name = "window" -> <<WriteReq(REG_LCDC, 177), WriteReq(REG_WY, 2),
                              WriteReq(REG_WX, 87)>>

RECURSIVE ApplyWrites(_, _)
ApplyWrites(p, ws) ==
    IF ws = <<>> THEN p
    ELSE ApplyWrites(perform_io(p, Head(ws), 0, 0).ppu, Tail(ws))

InitFrame ==
    /\ ppu \in {ApplyWrites(PpuState_new, SetupWrites(name)) : name \in FrameSetups}
    /\ gen = gen_new
    /\ data_out = 0
    /\ if_reg = 0
    /\ pins = ReadReq(0)
    /\ cpu = Registers_default
    /\ last = LastInit
    /\ dmaObs = DmaObsInit
    /\ obs = ObsInit
    /\ run = CpuRunner_new(Registers_default, FALSE, FALSE)
    /\ trace = TraceInit(run.cpu)

NextFrame == obs.dots < MaxFrameDots /\ PpuDot

SpecFrame == InitFrame /\ [][NextFrame]_vars

(* SpecIo: CPU bus accesses to the PPU registers through perform_io,       *)
(* interleaved with PPU dots over the first scanline and the advance to    *)
(* the second.  The accesses are made around the two set_ly calls of that  *)
(* stretch: before and after the first resume, before and after the        *)
(* resume that begins scanline 1.                                          *)

MaxIoDots == 458
MaxIo == 2
IoDots == {0, 1, SCANLINE_DOTS, SCANLINE_DOTS + 1}
IoRegisters == {REG_LCDC, REG_STAT, REG_SCY, REG_SCX, REG_LY, REG_LYC,
                REG_BGP, REG_OBP0, REG_OBP1, REG_WY, REG_WX}
IoValues == {1, 135, 200}   \* 0x01, 0x87, 0xC8

InitIo == InitMachine

NextIo ==
    \/ obs.dots < MaxIoDots /\ PpuDot
    \/ \E a \in IoRegisters, v \in IoValues :
          obs.ios < MaxIo /\ obs.dots \in IoDots /\ PerformIo(WriteReq(a, v))
    \/ \E a \in IoRegisters :
          obs.ios < MaxIo /\ obs.dots \in IoDots /\ PerformIo(ReadReq(a))

SpecIo == InitIo /\ [][NextIo]_vars

(* SpecBus: perform_io accesses back to back, before the first resume of  *)
(* the PPU coroutine (mode 0) and after it (mode 2, LYC_EQUALS_LY set).    *)

MaxBusDots == 2
MaxBusIo == 2

InitBus == InitMachine

NextBus ==
    \/ obs.dots < MaxBusDots /\ PpuDot
    \/ \E a \in IoRegisters, v \in IoValues :
          obs.ios < MaxBusIo /\ PerformIo(WriteReq(a, v))
    \/ \E a \in IoRegisters :
          obs.ios < MaxBusIo /\ PerformIo(ReadReq(a))

SpecBus == InitBus /\ [][NextBus]_vars

(* SpecCpu: one instruction of every opcode, then NOPs, without            *)
(* interrupts.  The first opcode byte and the second byte of a CB          *)
(* instruction are drawn from all bytes, the operands from OperandBytes;   *)
(* the run starts with the flags all clear or all set, at a PC in the      *)
(* middle of the address space or just below 0x8000, in a build with or    *)
(* without overflow checks.                                                *)

MaxCpuClocks == 8
OperandBytes == {1, 255}
CpuStartFlags == {0, 240}
CpuStartPcs == {256, 32765}     \* 0x0100, 0x7FFD
NOP == 0

CpuStarts ==
    {[RegsSample EXCEPT !.f = f, !.pc = pc] : f \in CpuStartFlags, pc \in CpuStartPcs}

\* The machine with a runner made from the Cpu [registers, ime]
InitRunner(registers, ime, checks) ==
    /\ ppu = PpuState_new
    /\ gen = gen_new
    /\ data_out = 0
    /\ if_reg = 0
    /\ pins = ReadReq(0)
    /\ cpu = Registers_default
    /\ last = LastInit
    /\ dmaObs = DmaObsInit
    /\ obs = ObsInit
    /\ run = CpuRunner_new(registers, ime, checks)
    /\ trace = TraceInit(run.cpu)

InitCpu ==
    \E registers \in CpuStarts, checks \in BOOLEAN :
        InitRunner(registers, FALSE, checks)

\* The bytes the memory may deliver to the request yielded last
CpuData ==
    IF run.out.is_fetch_cycle
    THEN IF trace.done.kind = "none" THEN Bytes ELSE {NOP}
    ELSE IF run.gen.at = "cb" THEN Bytes
    ELSE IF run.gen.at = "start" THEN {0}
    ELSE OperandBytes

NextCpu ==
    \E d \in CpuData :
        trace.clocks < MaxCpuClocks /\ CpuClock(NoLines(d))

SpecCpu == InitCpu /\ [][NextCpu]_vars

(* SpecIrq: interrupt dispatch between NOPs under every combination of    *)
(* the five interrupt lines, from the scenario PC=0x1234, SP=0xFFFE with   *)
(* IME set or clear; the byte read from IF is drawn from IfBytes.          *)

MaxIrqClocks == 7
IfBytes == {0, 31, 229, 255}            \* 0x1F, 0xE5, 0xFF
ScenarioRegs == [RegsSample EXCEPT !.pc = 4660, !.sp = 65534]

InitIrq == \E ime \in BOOLEAN : InitRunner(ScenarioRegs, ime, TRUE)

IrqData ==
    IF run.out.is_fetch_cycle THEN {NOP}
    ELSE IF run.gen.at = "int_read" THEN IfBytes
    ELSE {0}

NextIrq ==
    \E d \in IrqData, ls \in SUBSET InterruptVectors :
        trace.clocks < MaxIrqClocks /\ CpuClock(InputPins(d, ls))

SpecIrq == InitIrq /\ [][NextIrq]_vars

(* SpecRun: NOP, LD BC,nn, INC BC, STOP, HALT, SWAP (HL), DI and EI with   *)
(* the interrupt lines idle, one line asserted or two lines asserted, from *)
(* the same scenario.  Every operand byte, also the second byte of the CB  *)
(* instruction, is 0x36.                                                   *)

MaxRunClocks == 7
RunOpcodes == {0, 1, 3, 16, 118, 203, 243, 251}
RunLines == {{}, {64}, {72, 96}}
RunOperands == {54}                         \* 0x36

InitRun == \E ime \in BOOLEAN : InitRunner(ScenarioRegs, ime, TRUE)

RunData ==
    IF run.out.is_fetch_cycle THEN RunOpcodes ELSE RunOperands

NextRun ==
    \E d \in RunData, ls \in RunLines :
        trace.clocks < MaxRunClocks /\ CpuClock(InputPins(d, ls))

SpecRun == InitRun /\ [][NextRun]_vars

(* SpecIf: the PPU coroutine resumed up to the step that enters VBlank,    *)
(* and perform_io calls just before and just after that step, each with    *)
(* an IF byte of IfBytes behind `interrupt_request`: writes to STAT, a     *)
(* read of LY, and a write and a read outside the PPU's addresses.         *)

MaxIfDots == 65666
MaxIfIo == 2
IfDots == {144 * SCANLINE_DOTS, 144 * SCANLINE_DOTS + 1}
IfRequests == {WriteReq(REG_STAT, 0), WriteReq(REG_STAT, 16), WriteReq(REG_STAT, 64),
               ReadReq(REG_LY), WriteReq(REG_IF, 0), ReadReq(REG_IF)}

InitIf == InitMachine

NextIf ==
    \/ obs.dots < MaxIfDots /\ PpuDot
    \/ \E req \in IfRequests, irq \in IfBytes :
          obs.ios < MaxIfIo /\ obs.dots \in IfDots /\ PerformIoIrq(req, irq)

SpecIf == InitIf /\ [][NextIf]_vars

(* SpecTile: one call of bg_tile_data_address or sprite_tile_data_address  *)
(* per behaviour, for every tile number, with LCDC.BG_TILE_DATA_AREA set   *)
(* and clear, in a build with and without overflow checks.                 *)

MaxTileOps == 1

InitTile ==
    /\ ppu \in {[PpuState_new EXCEPT !.lcdc = LCDC_from_bits_truncate(l)] :
                    l \in {LCDC_default, LCDC_default - BG_TILE_DATA_AREA}}
    /\ gen = gen_new
    /\ data_out = 0
    /\ if_reg = 0
    /\ pins = ReadReq(0)
    /\ cpu = Registers_default
    /\ last = LastInit
    /\ dmaObs = DmaObsInit
    /\ obs = ObsInit
    /\ \E checks \in BOOLEAN : run = CpuRunner_new(Registers_default, FALSE, checks)
    /\ trace = TraceInit(run.cpu)

NextTile ==
    \/ \E t \in Bytes : obs.ops < MaxTileOps /\ BgTileDataAddress(t)
    \/ \E t \in Bytes : obs.ops < MaxTileOps /\ SpriteTileDataAddress(t)

SpecTile == InitTile /\ [][NextTile]_vars

(* SpecScan: the OAM search of scanlines 0 and 1 over an OAM filled by     *)
(* perform_io writes before the first resume, with 8- and 16-line sprites, *)
(* and at most one CPU write to OAM while the search of scanline 0 is      *)
(* under way (after entry 9 has been examined).  Entry i has tile i.       *)
(*   crowd  every entry at ypos 16 with xpos falling from 168, except      *)
(*          entry 3 (xpos 0), 5 (ypos 4), 7 (ypos 17) and 9 (ypos 200)     *)
(*   few    entries 2, 20 and 39 at ypos 16, the others at ypos 0          *)
(*   none   every entry at ypos 0, xpos 8                                  *)

MaxScanDots == 620
MaxScanIo == 1
ScanLayouts == {"crowd", "few", "none"}
ScanWriteDots == {20}
ScanWrites == {WriteReq(OAM_BASE + 8, 0), WriteReq(OAM_BASE + 8, 16),
               WriteReq(OAM_BASE + 120, 16), WriteReq(OAM_BASE + 156, 0)}

LayoutYpos(name, i) ==
    CASE name = "crowd" -> (CASE i = 5 -> 4 [] i = 7 -> 17 [] i = 9 -> 200 [] OTHER -> 16)
      [] name = "few" -> IF i \in {2, 20, 39} THEN 16 ELSE 0
      [] name = "none" -> 0

LayoutXpos(name, i) ==
    CASE name = "crowd" -> IF i = 3 THEN 0 ELSE 168 - 4 * i
      [] OTHER -> 8

\* PpuState::new after perform_io writes of ypos, xpos and tile to the 40
\* entries of OAM and of lcdc to LCDC
LayoutState(name, lcdc) ==
    [PpuState_new EXCEPT
        !.oam = [k \in 0 .. OAM_SIZE - 1 |->
                    CASE k % 4 = 0 -> LayoutYpos(name, k \div 4)
                      [] k % 4 = 1 -> LayoutXpos(name, k \div 4)
                      [] k % 4 = 2 -> k \div 4
                      [] OTHER -> 0],
        !.lcdc = LCDC_from_bits_truncate(lcdc)]

InitScan ==
    /\ ppu \in {LayoutState(name, lcdc) :
                    name \in ScanLayouts, lcdc \in {145, 145 + OBJ_SIZE}}
    /\ gen = gen_new
    /\ data_out = 0
    /\ if_reg = 0
    /\ pins = ReadReq(0)
    /\ cpu = Registers_default
    /\ last = LastInit
    /\ dmaObs = DmaObsInit
    /\ obs = ObsInit
    /\ run = CpuRunner_new(Registers_default, FALSE, FALSE)
    /\ trace = TraceInit(run.cpu)

NextScan ==
    \/ obs.dots < MaxScanDots /\ PpuDot
    \/ \E req \in ScanWrites :
          obs.ios < MaxScanIo /\ obs.dots \in ScanWriteDots /\ PerformIo(req)

SpecScan == InitScan /\ [][NextScan]_vars

(* SpecOam: one call of PpuState::oam per behaviour, for every index up to *)
(* MaxOamIndex, on the OAMs of SpecScan.                                   *)

MaxOamIndex == 44
MaxOamOps == 1

InitOam == InitScan

NextOam == \E index \in 0 .. MaxOamIndex : obs.ops < MaxOamOps /\ OamCall(index)

SpecOam == InitOam /\ [][NextOam]_vars

(* SpecDaa: DAA after ADD A,B, ADC A,B, SUB B and SBC A,B on every pair of *)
(* packed-BCD bytes with the carry flag clear or set, and DAA alone on     *)
(* every A and every flag byte.  The registers the instructions leave      *)
(* alone keep the inputs: C the first A, D the first opcode, E the first   *)
(* carry flag; B is the operand.                                           *)

MaxDaaClocks == 3
DAA == 39                                   \* 0x27
BcdBytes == {16 * hi + lo : hi \in 0 .. 9, lo \in 0 .. 9}
BcdOpcodes == {128, 136, 144, 152}          \* ADD A,B; ADC A,B; SUB B; SBC A,B
FlagBytes == {16 * n : n \in 0 .. 15}

InitDaa ==
    \/ \E a \in BcdBytes, v \in BcdBytes, op \in BcdOpcodes, cy \in 0 .. 1 :
          InitRunner([RegsSample EXCEPT !.a = a, !.c = a, !.b = v, !.d = op,
                                        !.f = 16 * cy, !.e = cy], FALSE, TRUE)
    \/ \E a \in Bytes, f \in FlagBytes :
          InitRunner([RegsSample EXCEPT !.a = a, !.c = a, !.b = 0, !.d = DAA,
                                        !.f = f, !.e = 0], FALSE, TRUE)

DaaData ==
    IF ~run.out.is_fetch_cycle THEN {0}
    ELSE IF trace.done.kind = "none" THEN {run.cpu.registers.d}
    ELSE IF trace.done.ins = <<DAA>> THEN {NOP}
    ELSE {DAA}

NextDaa ==
    \E d \in DaaData :
        trace.clocks < MaxDaaClocks /\ CpuClock(NoLines(d))

SpecDaa == InitDaa /\ [][NextDaa]_vars

(* SpecAddHl: ADD HL,BC, ADD HL,DE, ADD HL,HL and ADD HL,SP for HL and an  *)
(* addend (in BC, DE and SP alike) around the 12-bit and 16-bit carries,   *)
(* with the flags clear, set, and Z or C alone.                            *)

MaxAddHlClocks == 4
AddHlOpcodes == {9, 25, 41, 57}             \* 0x09, 0x19, 0x29, 0x39
HlSamples == {0, 1, 2048, 4095, 4096, 32767, 32768, 35363, 61440, 65535}
AddendSamples == {0, 1, 1541, 4095, 4096, 28673, 32768, 61441, 65535}
AddHlFlags == {0, 16, 128, 240}

InitAddHl ==
    \E hl \in HlSamples, rr \in AddendSamples, f \in AddHlFlags :
        InitRunner([RegsSample EXCEPT !.h = hl \div 256, !.l = hl % 256,
                                      !.b = rr \div 256, !.c = rr % 256,
                                      !.d = rr \div 256, !.e = rr % 256,
                                      !.sp = rr, !.f = f], FALSE, TRUE)

AddHlData ==
    IF ~run.out.is_fetch_cycle THEN {0}
    ELSE IF trace.done.kind = "none" THEN AddHlOpcodes
    ELSE {NOP}

NextAddHl ==
    \E d \in AddHlData :
        trace.clocks < MaxAddHlClocks /\ CpuClock(NoLines(d))

SpecAddHl == InitAddHl /\ [][NextAddHl]_vars

(* SpecRot: RLCA, RRCA, RLA, RRA and the eight CB rotates and shifts of A  *)
(* for every byte in A, with the flags clear, CARRY alone, Z N H alone and *)
(* all set.                                                                *)

MaxRotClocks == 4
RotOpcodes == {7, 15, 23, 31, 203}          \* 0x07, 0x0F, 0x17, 0x1F, 0xCB
RotCbBytes == {8 * y + 7 : y \in 0 .. 7}    \* RLC A .. SRL A
RotFlags == {0, 16, 224, 240}

InitRot ==
    \E a \in Bytes, f \in RotFlags :
        InitRunner([RegsSample EXCEPT !.a = a, !.f = f], FALSE, TRUE)

RotData ==
    IF run.gen.at = "cb" THEN RotCbBytes
    ELSE IF ~run.out.is_fetch_cycle THEN {0}
    ELSE IF trace.done.kind = "none" THEN RotOpcodes
    ELSE {NOP}

NextRot ==
    \E d \in RotData :
        trace.clocks < MaxRotClocks /\ CpuClock(NoLines(d))

SpecRot == InitRot /\ [][NextRot]_vars

(* SpecIncDec: INC r and DEC r for B, C, D, E, H, L, (HL) and A, with      *)
(* every byte as the operand (all seven registers hold it, and the read    *)
(* of (HL) returns it) and every flag byte.                                *)

MaxIncDecClocks == 4
IncDecOpcodes == {8 * y + z : y \in 0 .. 7, z \in {4, 5}}

InitIncDec ==
    \E v \in Bytes, f \in FlagBytes :
        InitRunner([RegsSample EXCEPT !.a = v, !.b = v, !.c = v, !.d = v, !.e = v,
                                      !.h = v, !.l = v, !.f = f], FALSE, TRUE)

IncDecData ==
    IF run.gen.at = "read_hl" THEN {run.cpu.registers.a}
    ELSE IF ~run.out.is_fetch_cycle THEN {0}
    ELSE IF trace.done.kind = "none" THEN IncDecOpcodes
    ELSE {NOP}

NextIncDec ==
    \E d \in IncDecData :
        trace.clocks < MaxIncDecClocks /\ CpuClock(NoLines(d))

SpecIncDec == InitIncDec /\ [][NextIncDec]_vars

(* SpecJr: JR d and the four JR cc,d followed by NOPs, with every          *)
(* displacement byte, from PCs at the bottom and the top of the address    *)
(* space and on both sides of 0x7FFF/0x8000, with the flags all clear or   *)
(* all set, in a build with and without overflow checks.                   *)

MaxJrClocks == 4
JrOpcodes == {24, 32, 40, 48, 56}
JrStartPcs == {0, 256, 32637, 32638, 32765, 32766, 32767, 32768, 32892, 32893,
               65408, 65533, 65534, 65535}

InitJr ==
    \E pc \in JrStartPcs, f \in CpuStartFlags, checks \in BOOLEAN :
        InitRunner([RegsSample EXCEPT !.pc = pc, !.f = f], FALSE, checks)

JrData ==
    IF run.gen.at = "start" THEN {0}
    ELSE IF run.out.is_fetch_cycle
    THEN IF trace.done.kind = "none" THEN JrOpcodes ELSE {NOP}
    ELSE IF Len(trace.seg.reqs) = 2 THEN Bytes
    ELSE {0}

NextJr ==
    \E d \in JrData :
        trace.clocks < MaxJrClocks /\ CpuClock(NoLines(d))

SpecJr == InitJr /\ [][NextJr]_vars

---------------------------------------------------------------------------
(* Properties of the OAM DMA engine (SpecDma).                             *)

DmaBase == dmaObs.page * 256
DmaIdle == ppu.dma_transfer.state = "Inactive"

\* C1: after a write of v to 0xFF46, call k of clock_dma (k = 1 .. 160)
\* issues Read{v*0x100 + k - 1}, so the source is read in ascending order;
\* call 161, which stores offset 0x9F, issues Read{0}; and the engine is
\* Inactive after exactly 161 calls, not earlier.
DmaReadsInOrder ==
    dmaObs.starts > 0 =>
        LET k == dmaObs.calls
        IN  /\ k <= OAM_SIZE + 1
            /\ DmaIdle <=> (k = OAM_SIZE + 1)
            /\ (k = 0) => ppu.dma_transfer = DmaActiveFirstRead(DmaBase)
            /\ (k >= 1 /\ k <= OAM_SIZE) =>
                    /\ pins = ReadReq(DmaBase + k - 1)
                    /\ ppu.dma_transfer = DmaActive(DmaBase + k - 1)
            /\ (k = OAM_SIZE + 1) => pins = ReadReq(0)

DmaReadsInOrderWitness ==
    /\ dmaObs.starts = 1
    /\ dmaObs.page = 192
    /\ dmaObs.calls = OAM_SIZE + 1
    /\ DmaIdle
    /\ pins = ReadReq(0)
    /\ last.op = "dma"

\* C2: when every clock_dma call is given the byte stored at the address
\* the call before requested, a transfer that has returned to Inactive has
\* left OAM[i] equal to the source byte at v*0x100 + i for i = 0 .. 0x9F,
\* and a read of 0xFF46 made while the engine is Inactive returns 0.
DmaCopiesSource ==
    /\ (dmaObs.starts > 0 /\ DmaIdle) =>
            \A i \in 0 .. OAM_SIZE - 1 : ppu.oam[i] = Memory_index(DmaBase + i)
    /\ (last.op = "io" /\ last.req = ReadReq(REG_DMA) /\ DmaIdle) => data_out = 0

DmaCopiesSourceWitness ==
    /\ dmaObs.page = 192
    /\ dmaObs.calls = OAM_SIZE + 1
    /\ DmaIdle
    /\ \A i \in 0 .. OAM_SIZE - 1 : ppu.oam[i] = i
    /\ last.op = "io"
    /\ last.req = ReadReq(REG_DMA)
    /\ data_out = 0

---------------------------------------------------------------------------
(* Properties of the register file (SpecRegs).                             *)

\* C6: the low nibble of F is zero in every reachable CPU state, whatever
\* byte is stored through POP AF / set_af, From<u8> or the flag operators.
FLowNibbleZero == cpu.f % 16 = 0

FLowNibbleZeroWitness ==
    /\ last.op = "store_16_bits"
    /\ last.arg = "AF"
    /\ last.val % 16 # 0
    /\ cpu.f = 240
    /\ last.pre.f = 0

\* the registers a 16-bit store to `dest` must leave alone
OtherRegisters(dest) ==
    {"a", "f", "b", "c", "d", "e", "h", "l", "sp", "pc"} \
        (CASE dest = "AF" -> {"a", "f"}
           [] dest = "BC" -> {"b", "c"}
           [] dest = "DE" -> {"d", "e"}
           [] dest = "HL" -> {"h", "l"}
           [] dest = "SP" -> {"sp"})

\* C8: after set_bc / set_de / set_hl (v) the matching get returns v, with
\* the high byte of v in the first-named register and the low byte in the
\* second; after set_af(v), get_af returns v & 0xFFF0; and the registers
\* outside the pair written, SP and PC are unchanged.
PairRoundTrip ==
    last.op = "store_16_bits" =>
        LET v == last.val
            hi == v \div 256
            lo == v % 256
        IN  /\ \A x \in OtherRegisters(last.arg) : cpu[x] = last.pre[x]
            /\ (last.arg = "BC") => get_bc(cpu) = v /\ cpu.b = hi /\ cpu.c = lo
            /\ (last.arg = "DE") => get_de(cpu) = v /\ cpu.d = hi /\ cpu.e = lo
            /\ (last.arg = "HL") => get_hl(cpu) = v /\ cpu.h = hi /\ cpu.l = lo
            /\ (last.arg = "AF") => get_af(cpu) = v - (v % 16) /\ cpu.a = hi

PairRoundTripWitness ==
    /\ last.op = "store_16_bits"
    /\ last.arg = "BC"
    /\ last.val = 4660
    /\ last.pre = RegsSample
    /\ cpu.b = 18
    /\ cpu.c = 52
    /\ get_bc(cpu) = 4660

---------------------------------------------------------------------------
(* Properties of the ALU (SpecAlu).                                        *)

\* The published LR35902 table for the eight accumulator operations, on
\* unbounded integers: the result byte and the flags Z, N, H, C.
AluTable(a, v, cin, operation) ==
    CASE operation \in {"Add", "Adc"} ->
            [res |-> (a + v + cin) % 256, n |-> FALSE,
             h |-> (a % 16) + (v % 16) + cin >= 16,
             cy |-> a + v + cin >= 256]
      [] operation \in {"Sub", "Sbc", "Cp"} ->
            [res |-> (a - v - cin + 512) % 256, n |-> TRUE,
             h |-> (a % 16) < (v % 16) + cin,
             cy |-> a < v + cin]
      [] operation = "And" ->
            [res |-> BitAnd(a, v), n |-> FALSE, h |-> TRUE, cy |-> FALSE]
      [] operation = "Or" ->
            [res |-> BitOr(a, v), n |-> FALSE, h |-> FALSE, cy |-> FALSE]
      [] operation = "Xor" ->
            [res |-> BitXor(a, v), n |-> FALSE, h |-> FALSE, cy |-> FALSE]

AluFlagByte(t) ==
    (IF t.res = 0 THEN 128 ELSE 0) + (IF t.n THEN 64 ELSE 0)
        + (IF t.h THEN 32 ELSE 0) + (IF t.cy THEN 16 ELSE 0)

\* C7: for every accumulator value, operand and incoming carry, do_math
\* leaves in A and F the result and the flags Z, N, H, C of the published
\* table (ADD/ADC, SUB/SBC/CP, AND, OR, XOR); CP leaves A unchanged, and no
\* other register changes.
DoMathMatchesTable ==
    last.op = "do_math" =>
        LET pre == last.pre
            cin == IF last.arg \in {"Adc", "Sbc"} /\ (pre.f \div 16) % 2 = 1
                   THEN 1 ELSE 0
            t == AluTable(pre.a, last.val, cin, last.arg)
        IN  /\ cpu.a = IF last.arg = "Cp" THEN pre.a ELSE t.res
            /\ cpu.f = AluFlagByte(t)
            /\ \A x \in {"b", "c", "d", "e", "h", "l", "sp", "pc"} : cpu[x] = pre[x]

DoMathMatchesTableWitness ==
    /\ last.op = "do_math"
    /\ last.arg = "Add"
    /\ last.pre.a = 58
    /\ last.val = 198
    /\ cpu.a = 0
    /\ cpu.f = 176

---------------------------------------------------------------------------
(* Properties of the scanline timing (SpecFrame).                          *)

\* C5: every scanline lasts exactly 456 dots whatever OAM, SCX and the
\* window hold (lines with sprites included), a frame has 154 scanlines,
\* and LY returns to 0 every 70224 dots.
ScanlineIs456Dots ==
    /\ obs.lastLine \in {0, SCANLINE_DOTS}
    /\ obs.lastFrameLines \in {0, TOTAL_LINES}
    /\ obs.lastFrame \in {0, TOTAL_LINES * SCANLINE_DOTS}

---------------------------------------------------------------------------
(* Properties of the PPU registers (SpecIo, SpecBus).                      *)

LastWrote(addr) ==
    last.op = "io" /\ last.req.kind = "Write" /\ last.req.addr = addr

\* C3: in every state reached by interleaving PPU dots with perform_io
\* accesses, writes of arbitrary bytes to 0xFF44 and 0xFF41 included, LY is
\* in 0 .. 153 and the STAT mode field is in 0 .. 3.
LyAndModeInRange ==
    /\ ppu.ly \in 0 .. TOTAL_LINES - 1
    /\ STAT_mode(ppu.stat) \in 0 .. 3

\* C4: STAT.LYC_EQUALS_LY equals (LY = LYC) immediately after every
\* perform_io write to LY (0xFF44) or LYC (0xFF45) and after every scanline
\* advance.
LycFlagTracksLy ==
    (LastWrote(REG_LY) \/ LastWrote(REG_LYC) \/ (last.op = "dot" /\ gen.ly_advanced))
        => (flags_contains(ppu.stat, LYC_EQUALS_LY) <=> (ppu.ly = ppu.lyc))

\* The nine registers that store the written byte as it is
PlainRegisters == {REG_LCDC, REG_SCY, REG_SCX, REG_LYC, REG_WY, REG_WX,
                   REG_BGP, REG_OBP0, REG_OBP1}

ReadBack(addr) ==
    last.op = "io" /\ last.req = ReadReq(addr) /\ last.wrote >= 0

\* C9 (as stated): a write of v to LCDC, SCY, SCX, LYC, WY, WX, BGP, OBP0
\* or OBP1 followed immediately by a read of the same address returns v;
\* for STAT the byte read back equals v on every bit other than the two
\* mode bits (bits 2 .. 7, mask 0xFC).
WriteReadRoundTripAllBits ==
    /\ \A a \in PlainRegisters : ReadBack(a) => data_out = last.wrote
    /\ ReadBack(REG_STAT) => data_out \div 4 = last.wrote \div 4

\* C9 (amended): the nine plain registers read back v; STAT reads back v on
\* bits 2 .. 6 (mask 0x7C), and bit 7, which STAT does not define, reads
\* back 0.
WriteReadRoundTrip ==
    /\ \A a \in PlainRegisters : ReadBack(a) => data_out = last.wrote
    /\ ReadBack(REG_STAT) =>
            /\ (data_out \div 4) % 32 = (last.wrote \div 4) % 32
            /\ data_out \div 128 = 0

WriteReadRoundTripWitness ==
    /\ ReadBack(REG_STAT)
    /\ last.wrote = 200
    /\ data_out = 72
    /\ obs.dots > 0

\* C10: a perform_io write of any byte v to STAT (0xFF41) leaves bits 0-1
\* (the mode) and the LYC_EQUALS_LY bit as they were, sets the four
\* interrupt-enable bits from v, and recomputes stat_irq.
StatWriteKeepsReadOnlyBits ==
    LastWrote(REG_STAT) =>
        /\ ppu.stat % 8 = last.stat % 8
        /\ (ppu.stat \div 8) % 16 = (last.req.data \div 8) % 16
        /\ ppu.stat_irq = update_stat_interrupt(ppu).stat_irq


---------------------------------------------------------------------------
(* Interrupt dispatch and HALT.                                            *)

\* The byte b with bit n cleared
ClearBit(b, n) == IF (b \div (2 ^ n)) % 2 = 1 THEN b - 2 ^ n ELSE b

Quiet(req) == [pins |-> req, is_fetch_cycle |-> FALSE]

LowestVector(ls) == CHOOSE v \in ls : \A w \in ls : v <= w

\* C11: a line asserted at an instruction boundary with IME set makes the
\* CPU yield exactly five requests before the next opcode fetch: Read
\* {0xFF0F}, Write{0xFF0F, IF with the serviced bit cleared}, Write{SP-1,
\* PC high}, Write{SP-2, PC low}, Read{0}; then PC is the vector, SP is
\* two lower, IME is false and the next request is the opcode fetch at the
\* vector.  No instruction or halted cycle starts at such a boundary.
DispatchTakesFiveRequests ==
    /\ trace.seg.kind \in {"instr", "halt"} =>
            trace.seg.lines = {} \/ ~trace.seg.pre.ime
    /\ trace.done.kind = "dispatch" =>
          LET d == trace.done
              pre == d.pre.registers
              post == d.post.registers
          IN  /\ d.lines # {} /\ d.pre.ime
              /\ Len(d.reqs) = 5
              /\ d.reqs[1] = Quiet(ReadReq(REG_IF))
              /\ d.reqs[2] = Quiet(WriteReq(REG_IF,
                                 ClearBit(d.ins[1], (post.pc - 64) \div 8)))
              /\ d.reqs[3] = Quiet(WriteReq((pre.sp + 65535) % 65536, pre.pc \div 256))
              /\ d.reqs[4] = Quiet(WriteReq((pre.sp + 65534) % 65536, pre.pc % 256))
              /\ d.reqs[5] = Quiet(ReadReq(0))
              /\ post.pc \in d.lines
              /\ post.sp = (pre.sp + 65534) % 65536
              /\ ~d.post.ime
              /\ post = [pre EXCEPT !.pc = post.pc, !.sp = post.sp]
              /\ trace.seg.kind = "instr"
              /\ trace.seg.reqs[1] = [pins |-> ReadReq(post.pc), is_fetch_cycle |-> TRUE]

\* The scenario: PC=0x1234, SP=0xFFFE, line 40h; 0x12 goes to 0xFFFD and
\* 0x34 to 0xFFFC
DispatchTakesFiveRequestsWitness ==
    /\ trace.done.kind = "dispatch"
    /\ trace.done.lines = {64}
    /\ trace.done.pre.registers.pc = 4660
    /\ trace.done.pre.registers.sp = 65534
    /\ trace.done.ins[1] = 255
    /\ trace.done.reqs[2].pins = WriteReq(REG_IF, 254)
    /\ trace.done.reqs[3].pins = WriteReq(65533, 18)
    /\ trace.done.reqs[4].pins = WriteReq(65532, 52)
    /\ trace.done.post.registers.pc = 64
    /\ trace.done.post.registers.sp = 65532
    /\ ~run.cpu.ime

\* C12: for every combination of the five lines with at least one
\* asserted, dispatch jumps to the lowest asserted vector, and the byte
\* written to 0xFF0F is the byte read with exactly bit (vector-0x40)/8
\* cleared and every other bit as read.
DispatchServesLowestVector ==
    trace.done.kind = "dispatch" =>
        LET d == trace.done
            vector == LowestVector(d.lines)
            n == (vector - 64) \div 8
            read == d.ins[1]
            written == d.reqs[2].pins.data
        IN  /\ d.post.registers.pc = vector
            /\ d.reqs[2].pins.kind = "Write"
            /\ d.reqs[2].pins.addr = REG_IF
            /\ \A i \in 0..7 :
                  (written \div (2 ^ i)) % 2 =
                      IF i = n THEN 0 ELSE (read \div (2 ^ i)) % 2

\* Lines 50h and 60h: vector 0x50, and IF 0xE5 is written back as 0xE1
DispatchServesLowestVectorWitness ==
    /\ trace.done.kind = "dispatch"
    /\ trace.done.lines = {80, 96}
    /\ trace.done.post.registers.pc = 80
    /\ trace.done.ins[1] = 229
    /\ trace.done.reqs[2].pins.data = 225

\* C13: after HALT or STOP, while no input asserts a line every cycle
\* yields Read{0} with the Cpu unchanged; the first input that asserts a
\* line is answered by Read{0xFF0F} if IME is set and by the opcode fetch
\* at the unchanged PC if it is clear.
HaltWaitsForInterrupt ==
    /\ trace.asleep =>
          /\ run.out = Quiet(ReadReq(0))
          /\ run.cpu = trace.sleep_cpu
    /\ trace.woken =>
          IF trace.sleep_cpu.ime
          THEN /\ run.out = Quiet(ReadReq(REG_IF))
               /\ run.cpu = trace.sleep_cpu
          ELSE /\ run.out = [pins |-> ReadReq(trace.sleep_cpu.registers.pc),
                             is_fetch_cycle |-> TRUE]
               /\ Boundary(run) = trace.sleep_cpu

\* A CPU that slept through a halted cycle and is woken into a dispatch
HaltWaitsForInterruptWitness ==
    /\ trace.woken
    /\ trace.done.kind = "halt"
    /\ trace.sleep_cpu.ime
    /\ run.out.pins = ReadReq(REG_IF)


---------------------------------------------------------------------------
(* Opcodes and M-cycles.  The claims below read the completed instruction  *)
(* `trace.done`: its first input byte is the opcode, the following ones    *)
(* the bytes delivered to its later requests; the number of its requests   *)
(* is its number of M-cycles.                                              *)

UndefinedOpcodes == {211, 219, 221, 227, 228, 235, 236, 237, 244, 252, 253}

\* C14: fetching an opcode is a panic exactly when the opcode is one of
\* 0xD3, 0xDB, 0xDD, 0xE3, 0xE4, 0xEB, 0xEC, 0xED, 0xF4, 0xFC, 0xFD; every
\* other first byte and every second byte of a CB instruction executes
\* without a panic.
PanicExactlyOnUndefinedOpcodes ==
    /\ run.panic # "" =>
          /\ trace.seg.kind = "instr"
          /\ Len(trace.seg.ins) = 1
          /\ trace.seg.ins[1] \in UndefinedOpcodes
    /\ (trace.seg.kind = "instr" /\ trace.seg.ins # <<>>
            /\ trace.seg.ins[1] \in UndefinedOpcodes) => run.panic # ""
    /\ trace.done.kind = "instr" => trace.done.ins[1] \notin UndefinedOpcodes

\* The last request of the segment under way needs no bus: a halted cycle,
\* the last cycle of a dispatch, the second cycle of INC BC
InternalCycle ==
    \/ trace.seg.kind = "halt"
    \/ trace.seg.kind = "dispatch" /\ Len(trace.seg.reqs) = 5
    \/ trace.seg.kind = "instr" /\ Len(trace.seg.reqs) = 2 /\ trace.seg.ins = <<3>>

\* C15: every clock yields exactly one request, a Read or a Write; a cycle
\* without a bus access yields Read{0}; is_fetch_cycle is true on exactly
\* the request that fetches the first opcode byte of an instruction.
FetchFlagMarksOpcodeFetch ==
    (trace.clocks > 0 /\ run.panic = "") =>
        /\ run.out.pins.kind \in {"Read", "Write"}
        /\ trace.seg.reqs # <<>>
        /\ trace.seg.reqs[Len(trace.seg.reqs)] = run.out
        /\ run.out.is_fetch_cycle <=>
              (trace.seg.kind = "instr" /\ Len(trace.seg.reqs) = 1)
        /\ InternalCycle => run.out.pins = ReadReq(0)

\* The fetch of the second byte of a CB instruction, after an instruction
\* with an operand fetch or an internal cycle
FetchFlagMarksOpcodeFetchWitness ==
    /\ trace.seg.kind = "instr"
    /\ trace.seg.ins = <<203>>
    /\ Len(trace.seg.reqs) = 2
    /\ run.out.pins.kind = "Read"
    /\ ~run.out.is_fetch_cycle
    /\ trace.done.kind = "instr"
    /\ Len(trace.done.reqs) > 1

\* C16: JP nn (0xC3) takes 4 M-cycles and the next opcode fetch reads nn.
JpTakesFourCycles ==
    (trace.done.kind = "instr" /\ trace.done.ins[1] = 195) =>
        /\ Len(trace.done.reqs) = 4
        /\ trace.seg.reqs[1].pins =
              ReadReq(trace.done.ins[3] * 256 + trace.done.ins[2])

\* The register pair of PUSH rr / POP rr as a word
PushedWord(op, r) ==
    CASE op \in {197, 193} -> r.b * 256 + r.c
      [] op \in {213, 209} -> r.d * 256 + r.e
      [] op \in {229, 225} -> r.h * 256 + r.l
      [] op \in {245, 241} -> r.a * 256 + r.f

\* C17: PUSH rr takes 4 M-cycles, writes the high byte of rr to SP-1, then
\* the low byte to SP-2, and leaves SP two lower; POP rr takes 3.
PushPopCycles ==
    trace.done.kind = "instr" =>
        LET d == trace.done
            op == d.ins[1]
            pre == d.pre.registers
            n == Len(d.reqs)
        IN  /\ op \in {197, 213, 229, 245} =>
                  /\ n = 4
                  /\ d.reqs[n - 1].pins =
                        WriteReq((pre.sp + 65535) % 65536, PushedWord(op, pre) \div 256)
                  /\ d.reqs[n].pins =
                        WriteReq((pre.sp + 65534) % 65536, PushedWord(op, pre) % 256)
                  /\ d.post.registers.sp = (pre.sp + 65534) % 65536
            /\ op \in {193, 209, 225, 241} => n = 3

\* The condition cc (0 NZ, 1 Z, 2 NC, 3 C) on the flag byte f
ConditionHolds(f, cc) ==
    CASE cc = 0 -> f < 128
      [] cc = 1 -> f >= 128
      [] cc = 2 -> (f \div 16) % 2 = 0
      [] cc = 3 -> (f \div 16) % 2 = 1

CallCc == {196, 204, 212, 220}
RetCc == {192, 200, 208, 216}
JrCc == {32, 40, 48, 56}
Rst == {199, 207, 215, 223, 231, 239, 247, 255}

\* The M-cycles of the control-flow instruction op entered with flags f;
\* 0 for the other opcodes
ControlFlowCycles(op, f) ==
    LET taken == ConditionHolds(f, ((op \div 8) % 8) % 4)
    IN  CASE op = 205 -> 6
          [] op \in CallCc -> IF taken THEN 6 ELSE 3
          [] op = 201 -> 4
          [] op \in RetCc -> IF taken THEN 5 ELSE 2
          [] op = 217 -> 4
          [] op = 24 -> 3
          [] op \in JrCc -> IF taken THEN 3 ELSE 2
          [] op \in Rst -> 4
          [] OTHER -> 0

\* C18: CALL nn takes 6 M-cycles; CALL cc,nn 6 taken and 3 untaken; RET 4;
\* RET cc 5 taken and 2 untaken; RETI 4; JR d 3; JR cc,d 3 taken and 2
\* untaken; RST 4; an untaken CALL, RET or JR changes neither SP nor
\* memory.
ControlFlowCyclesMatch ==
    trace.done.kind = "instr" =>
        LET d == trace.done
            op == d.ins[1]
            f == d.pre.registers.f
            cycles == ControlFlowCycles(op, f)
            untaken == /\ op \in CallCc \cup RetCc \cup JrCc
                       /\ ~ConditionHolds(f, ((op \div 8) % 8) % 4)
        IN  /\ cycles # 0 => Len(d.reqs) = cycles
            /\ untaken =>
                  /\ d.post.registers.sp = d.pre.registers.sp
                  /\ \A i \in 1..Len(d.reqs) : d.reqs[i].pins.kind = "Read"

\* A taken CALL NZ,nn: six requests, the return address pushed
ControlFlowCyclesMatchWitness ==
    /\ trace.done.kind = "instr"
    /\ trace.done.ins[1] = 196
    /\ Len(trace.done.reqs) = 6
    /\ trace.done.reqs[4].pins.kind = "Write"
    /\ trace.done.post.registers.sp = 65532

\* The opcodes of the instructions C19 names, INC (HL) and DEC (HL) apart
LoadCycles(op) ==
    LET x == op \div 64
        y == (op \div 8) % 8
        z == op % 8
    IN  CASE x = 1 /\ y # 6 /\ z # 6 -> 1
          [] x = 1 /\ op # 118 -> 2
          [] x = 2 /\ z = 6 -> 2
          [] x = 0 /\ z = 6 /\ y # 6 -> 2
          [] op = 234 -> 4
          [] x = 0 /\ z = 1 /\ y % 2 = 0 -> 3
          [] x = 0 /\ z = 1 /\ y % 2 = 1 -> 2
          [] x = 0 /\ z = 3 -> 2
          [] op \in {39, 47, 55, 63, 251, 243} -> 1
          [] OTHER -> 0

\* The instructions of C19 take their M-cycles, with n for INC (HL) and
\* DEC (HL); an instruction with one access to (HL) makes it at HL
LoadCyclesWith(n) ==
    trace.done.kind = "instr" =>
        LET d == trace.done
            op == d.ins[1]
            hl == d.pre.registers.h * 256 + d.pre.registers.l
            one_access == \/ op \div 64 = 1 /\ LoadCycles(op) = 2
                          \/ op \div 64 = 2 /\ op % 8 = 6
        IN  /\ LoadCycles(op) # 0 => Len(d.reqs) = LoadCycles(op)
            /\ op \in {52, 53} => Len(d.reqs) = n
            /\ one_access => d.reqs[2].pins.addr = hl

\* C19 as stated: an 8-bit register-to-register LD takes 1 M-cycle; every
\* 8-bit operation with (HL) as an operand (LD r,(HL), LD (HL),r, ALU
\* A,(HL), INC (HL), DEC (HL)) takes 2; LD r,n 2; LD (nn),A 4; LD rr,nn 3;
\* ADD HL,rr 2; INC rr and DEC rr 2; DAA, CPL, SCF, CCF, EI and DI 1.
LoadCyclesAsStated == LoadCyclesWith(2)

\* C19, amended: as stated, except that INC (HL) and DEC (HL) take 3
\* M-cycles (fetch, read of (HL), write of (HL)) and LD (HL),n takes 3
\* (fetch, operand fetch, write of (HL)).
LoadCyclesAmended ==
    /\ LoadCyclesWith(3)
    /\ (trace.done.kind = "instr" /\ trace.done.ins[1] \in {52, 53, 54}) =>
          LET d == trace.done
              hl == d.pre.registers.h * 256 + d.pre.registers.l
              v == d.ins[2]
          IN  /\ Len(d.reqs) = 3
              /\ d.ins[1] # 54 => d.reqs[2].pins = ReadReq(hl)
              /\ d.reqs[3].pins =
                    WriteReq(hl, CASE d.ins[1] = 52 -> (v + 1) % 256
                                   [] d.ins[1] = 53 -> (v + 255) % 256
                                   [] d.ins[1] = 54 -> v)

\* INC (HL) of the byte 0xFF: read of (HL), then write of 0x00
LoadCyclesAmendedWitness ==
    /\ trace.done.kind = "instr"
    /\ trace.done.ins[1] = 52
    /\ trace.done.ins[2] = 255
    /\ Len(trace.done.reqs) = 3
    /\ trace.done.reqs[3].pins.kind = "Write"
    /\ trace.done.reqs[3].pins.data = 0

\* The byte b with bit n set
SetBit(b, n) == IF (b \div (2 ^ n)) % 2 = 1 THEN b ELSE b + 2 ^ n

\* C20: a CB instruction on a register takes 2 M-cycles; BIT n,(HL) takes
\* 3 (fetch, fetch, read of (HL)) and writes nothing; RES, SET and the
\* rotates and shifts on (HL) take 4 (fetch, fetch, read of (HL), write of
\* (HL)) and write the modified byte to the HL address that was read.
CbCycles ==
    (trace.done.kind = "instr" /\ trace.done.ins[1] = 203) =>
        LET d == trace.done
            cb == d.ins[2]
            x == cb \div 64
            n == (cb \div 8) % 8
            hl == d.pre.registers.h * 256 + d.pre.registers.l
            v == d.ins[3]
            w == d.reqs[4].pins
        IN  IF cb % 8 # 6
            THEN /\ Len(d.reqs) = 2
                 /\ d.reqs[2].pins.kind = "Read"
            ELSE /\ d.reqs[3].pins = ReadReq(hl)
                 /\ d.reqs[1].pins.kind = "Read" /\ d.reqs[2].pins.kind = "Read"
                 /\ IF x = 1
                    THEN Len(d.reqs) = 3
                    ELSE /\ Len(d.reqs) = 4
                         /\ w.kind = "Write" /\ w.addr = hl
                         /\ x = 2 => w.data = ClearBit(v, n)
                         /\ x = 3 => w.data = SetBit(v, n)
                         /\ (x = 0 /\ n = 0) => w.data = ((v * 2) % 256) + (v \div 128)
                         /\ (x = 0 /\ n = 1) => w.data = (v \div 2) + 128 * (v % 2)
                         /\ (x = 0 /\ n = 4) => w.data = (v * 2) % 256
                         /\ (x = 0 /\ n = 6) => w.data = (v % 16) * 16 + (v \div 16)
                         /\ (x = 0 /\ n = 7) => w.data = v \div 2

\* RES 0,(HL) of the byte 0xFF: the write carries 0xFE
CbCyclesWitness ==
    /\ trace.done.kind = "instr"
    /\ trace.done.ins[1] = 203
    /\ trace.done.ins[2] = 134
    /\ trace.done.ins[3] = 255
    /\ Len(trace.done.reqs) = 4
    /\ trace.done.reqs[4].pins = WriteReq(48350, 254)

---------------------------------------------------------------------------
(* EI and DI.                                                              *)

EI == 251       \* 0xFB
DI == 243       \* 0xF3

\* C21: EI sets IME and DI clears it in the M-cycle that executes them: if
\* the input that delivers an EI opcode asserts a line, the next request is
\* Read{0xFF0F} with no opcode fetch in between; after DI no dispatch
\* starts, however the lines are driven: a dispatch starts only with IME
\* set, and only EI and RETI set it.
EiDiTakeEffectAtOnce ==
    /\ trace.seg.kind = "dispatch" => trace.seg.pre.ime
    /\ (trace.done.kind = "instr" /\ Len(trace.seg.reqs) = 1) =>
          LET d == trace.done
          IN  /\ d.ins = <<EI>> =>
                    /\ d.post.ime
                    /\ trace.seg.lines # {} =>
                          /\ trace.seg.kind = "dispatch"
                          /\ run.out = Quiet(ReadReq(REG_IF))
                          /\ run.cpu.registers.pc = wrapping_add16(d.pre.registers.pc, 1)
              /\ d.ins = <<DI>> =>
                    /\ ~d.post.ime
                    /\ trace.seg.kind # "dispatch"
              /\ (d.post.ime /\ ~d.pre.ime) => d.ins[1] \in {EI, 217}

\* EI fetched with IME clear while a line is asserted, answered by the
\* first request of the dispatch
EiDiTakeEffectAtOnceWitness ==
    /\ trace.done.kind = "instr"
    /\ trace.done.ins = <<EI>>
    /\ ~trace.done.pre.ime
    /\ trace.seg.kind = "dispatch"
    /\ trace.seg.lines = {64}
    /\ Len(trace.seg.reqs) = 1
    /\ run.out.pins = ReadReq(REG_IF)

---------------------------------------------------------------------------
(* The interrupt latches of the PPU.                                       *)

\* Bit n of the byte b is set
BitSet(b, n) == (b \div (2 ^ n)) % 2 = 1

\* C22: after every perform_io call, read or write, whatever the address,
\* bit 0 of the IF byte equals vblank_irq, bit 1 equals stat_irq, and bits
\* 2..7 are as they were passed in.
IfFollowsLatches ==
    last.op = "io" =>
        /\ BitSet(if_reg, 0) <=> ppu.vblank_irq
        /\ BitSet(if_reg, 1) <=> ppu.stat_irq
        /\ if_reg \div 4 = last.irq \div 4

\* A read outside the PPU's addresses during VBlank with IF passed in as
\* 0xE5: bit 0 stays set with the latch, bit 1 is set by a STAT interrupt
IfFollowsLatchesWitness ==
    /\ last.op = "io"
    /\ last.req = ReadReq(REG_IF)
    /\ last.irq = 229
    /\ ppu.vblank_irq
    /\ ppu.stat_irq
    /\ if_reg = 231

\* The STAT interrupt condition on the STAT byte: the mode with its
\* enable bit (3 HBlank, 4 VBlank, 5 OAM), or LYC_EQUALS_LY (bit 2) with
\* the LYC enable (bit 6)
StatCondition(stat) ==
    \/ stat % 4 = 0 /\ BitSet(stat, 3)
    \/ stat % 4 = 1 /\ BitSet(stat, 4)
    \/ stat % 4 = 2 /\ BitSet(stat, 5)
    \/ BitSet(stat, 2) /\ BitSet(stat, 6)

\* C23: after any LY advance, mode transition or CPU write to STAT, LY or
\* LYC, stat_irq equals the STAT interrupt condition evaluated on the
\* current STAT register; mode 3 never satisfies the mode condition.
StatIrqMatchesStat ==
    /\ ppu.stat_irq <=> StatCondition(ppu.stat)
    /\ (ppu.stat % 4 = 3 /\ ppu.stat_irq) => (BitSet(ppu.stat, 2) /\ BitSet(ppu.stat, 6))

\* The advance to LY = 1 after writes of LYC = 1 and STAT = 0xC8: mode 2
\* without its enable, LYC_EQUALS_LY with the LYC enable
StatIrqMatchesStatWitness ==
    /\ last.op = "dot"
    /\ gen.ly_advanced
    /\ ppu.ly = 1
    /\ ppu.lyc = 1
    /\ ppu.stat = 78
    /\ ppu.stat_irq

\* C24: vblank_irq becomes true once per frame, in the step that enters
\* mode 1 after the HBlank of scanline 143; it is true at every dot
\* boundary while LY runs 144..153, ten lines of 456 dots each, and false
\* at every dot boundary of scanlines 0..143: the step that starts the next
\* frame clears it.
VblankLatchFollowsLy ==
    /\ ppu.vblank_irq <=> ppu.ly \in VISIBLE_LINES .. TOTAL_LINES - 1
    /\ ~ppu.vblank_irq <=> ppu.ly \in 0 .. VISIBLE_LINES - 1
    /\ ppu.vblank_irq =>
          /\ ppu.stat % 4 = 1
          /\ gen.pc = "vblank"
          /\ obs.lineDots \in 1 .. SCANLINE_DOTS
    /\ (gen.ly_advanced /\ ppu.ly = VISIBLE_LINES) =>
          /\ ppu.vblank_irq
          /\ obs.frameLines = VISIBLE_LINES + 1
    /\ (gen.ly_advanced /\ ppu.ly > VISIBLE_LINES) => obs.lastLine = SCANLINE_DOTS
    /\ (gen.frame_started /\ obs.dots > 1) =>
          /\ ~ppu.vblank_irq
          /\ obs.lastLine = SCANLINE_DOTS
          /\ obs.lastFrameLines = TOTAL_LINES

\* The step that starts the second frame: the latch is down again after
\* the 154th line
VblankLatchFollowsLyWitness ==
    /\ gen.frame_started
    /\ obs.dots > 1
    /\ ppu.ly = 0
    /\ ~ppu.vblank_irq
    /\ obs.lastFrameLines = TOTAL_LINES

---------------------------------------------------------------------------
(* The OAM search.                                                         *)

\* The entry e qualifies on scanline s with sprites h lines high
Qualifies(e, s, h) ==
    /\ e.xpos > 0
    /\ e.ypos <= s + 16
    /\ s + 16 < e.ypos + h

\* The steps of obs.scan whose entry qualified, and the first ten of them
QualifyingSteps ==
    {n \in 1 .. Len(obs.scan) :
        Qualifies(obs.scan[n].read, ppu.ly, IF BitSet(ppu.lcdc, 2) THEN 16 ELSE 8)}

RetainedSteps ==
    {n \in QualifyingSteps : Cardinality({m \in QualifyingSteps : m < n}) < 10}

\* C25: at the end of mode 2 on scanline s the scan buffer holds the first
\* (lowest OAM index) up to 10 entries, each as read at its own scan step,
\* with xpos > 0 and ypos <= s+16 < ypos+sprite_height, in increasing OAM
\* index order whatever their xpos; it never holds more than 10, and
\* qualifying entries after the tenth are ignored.
ScanBufferHoldsFirstTen ==
    /\ gen.sprite_buffer_len <= 10
    /\ (gen.pc = "oam_b" /\ gen.entry = OAM_ENTRIES - 1) =>
          /\ Len(obs.scan) = OAM_ENTRIES
          /\ gen.sprite_buffer_len = Cardinality(RetainedSteps)
          /\ \A n \in RetainedSteps :
                gen.sprite_buffer[Cardinality({m \in RetainedSteps : m < n})]
                    = obs.scan[n].read

\* The crowd on scanline 0 with 8-line sprites, entry 2 moved away by a
\* write after it was examined: entries 0, 1, 2, 4, 6, 8, 10, 11, 12, 13
\* are held, entry 2 as it was read, and entries 14..39 are ignored
ScanBufferHoldsFirstTenWitness ==
    /\ gen.pc = "oam_b"
    /\ gen.entry = OAM_ENTRIES - 1
    /\ ppu.ly = 0
    /\ ~BitSet(ppu.lcdc, 2)
    /\ gen.sprite_buffer_len = 10
    /\ Cardinality(QualifyingSteps) > 10
    /\ [i \in 0 .. 9 |-> gen.sprite_buffer[i].tile]
          = [i \in 0 .. 9 |-> CASE i < 3 -> i [] i < 6 -> 2 * i - 2 [] OTHER -> i + 4]
    /\ gen.sprite_buffer[2].ypos = 16
    /\ ppu.oam[8] = 0
    /\ gen.sprite_buffer[0].xpos > gen.sprite_buffer[9].xpos

\* C26: on every visible scanline mode 2 lasts 80 dots: OAM entry i is
\* examined at dot 2*i of the scanline, one entry per 2 dots, also when the
\* scan buffer is full, and the STAT mode changes from 2 to 3 exactly 80
\* dots after the LY advance.
OamScanTakesEightyDots ==
    /\ \A n \in 1 .. Len(obs.scan) :
          /\ obs.scan[n].index = n - 1
          /\ obs.scan[n].at = 2 * (n - 1)
    /\ (obs.dots > 0 /\ ppu.ly < VISIBLE_LINES) =>
          /\ ppu.stat % 4 = 2 <=> obs.lineDots <= OAM_SEARCH_DOTS
          /\ obs.lineDots <= OAM_SEARCH_DOTS =>
                Len(obs.scan) = (obs.lineDots + 1) \div 2
          /\ obs.lineDots = OAM_SEARCH_DOTS + 1 =>
                /\ ppu.stat % 4 = 3
                /\ Len(obs.scan) = OAM_ENTRIES

\* The first dot of mode 3 on scanline 1, after a search whose buffer was
\* full from entry 12 on: entry 39 was examined at dot 78
OamScanTakesEightyDotsWitness ==
    /\ ppu.ly = 1
    /\ obs.lineDots = OAM_SEARCH_DOTS + 1
    /\ ppu.stat % 4 = 3
    /\ gen.sprite_buffer_len = 10
    /\ obs.scan[13].read.tile = 12
    /\ gen.sprite_buffer[9] = obs.scan[13].read
    /\ obs.scan[40].index = 39
    /\ obs.scan[40].at = 78

---------------------------------------------------------------------------
(* Arithmetic of the instruction engine.                                   *)

\* The number a packed-BCD byte stands for, and the packed-BCD byte of a
\* number below 100
BcdValue(b) == 10 * (b \div 16) + (b % 16)
BcdByte(n) == 16 * (n \div 10) + (n % 10)

\* C27: after ADD or ADC on two valid packed-BCD bytes DAA leaves in A the
\* packed-BCD digits of the decimal sum modulo 100, with CARRY set exactly
\* when the sum is 100 or more; after SUB or SBC it leaves the packed-BCD
\* difference modulo 100 with CARRY unchanged; in all cases DAA sets Z
\* exactly when the result is 0, clears H, leaves N unchanged and never
\* clears a set CARRY.
DaaGivesDecimalResult ==
    (trace.done.kind = "instr" /\ trace.done.ins = <<DAA>>) =>
        LET pre == trace.done.pre.registers
            post == trace.done.post.registers
            op == post.d
            cin == IF op \in {136, 152} THEN post.e ELSE 0
            sum == BcdValue(post.c) + BcdValue(post.b) + cin
            diff == 100 + BcdValue(post.c) - BcdValue(post.b) - cin
        IN  /\ op \in {128, 136} =>
                  /\ post.a = BcdByte(sum % 100)
                  /\ BitSet(post.f, 4) <=> sum >= 100
            /\ op \in {144, 152} =>
                  /\ post.a = BcdByte(diff % 100)
                  /\ BitSet(post.f, 4) <=> BitSet(pre.f, 4)
            /\ BitSet(post.f, 7) <=> post.a = 0
            /\ ~BitSet(post.f, 5)
            /\ BitSet(post.f, 6) <=> BitSet(pre.f, 6)
            /\ BitSet(pre.f, 4) => BitSet(post.f, 4)
            /\ post.f % 16 = 0
            /\ post = [pre EXCEPT !.a = post.a, !.f = post.f, !.pc = (pre.pc + 1) % 65536]

\* The scenario: A = 0x45, B = 0x38, F = 0, ADD A,B then DAA give
\* A = 0x83, F = 0x00
DaaGivesDecimalResultWitness ==
    /\ trace.done.kind = "instr"
    /\ trace.done.ins = <<DAA>>
    /\ run.cpu.registers.c = 69
    /\ run.cpu.registers.b = 56
    /\ run.cpu.registers.d = 128
    /\ run.cpu.registers.e = 0
    /\ trace.done.pre.registers.a = 125
    /\ run.cpu.registers.a = 131
    /\ run.cpu.registers.f = 0

\* The 16-bit addend of ADD HL,rr in the register file r
Addend(op, r) ==
    CASE op = 9 -> r.b * 256 + r.c
      [] op = 25 -> r.d * 256 + r.e
      [] op = 41 -> r.h * 256 + r.l
      [] op = 57 -> r.sp

\* C28: ADD HL,rr sets HL to (HL+rr) mod 65536, N to 0, H to whether
\* (HL & 0x0FFF) + (rr & 0x0FFF) carries into bit 12, C to whether
\* HL+rr >= 0x10000, and leaves Z and every other register unchanged.
AddHlSetsSumAndFlags ==
    (trace.done.kind = "instr" /\ trace.done.ins[1] \in AddHlOpcodes) =>
        LET pre == trace.done.pre.registers
            post == trace.done.post.registers
            hl == pre.h * 256 + pre.l
            rr == Addend(trace.done.ins[1], pre)
        IN  /\ post.h * 256 + post.l = (hl + rr) % 65536
            /\ ~BitSet(post.f, 6)
            /\ BitSet(post.f, 5) <=> (hl % 4096) + (rr % 4096) >= 4096
            /\ BitSet(post.f, 4) <=> hl + rr >= 65536
            /\ BitSet(post.f, 7) <=> BitSet(pre.f, 7)
            /\ post.f % 16 = 0
            /\ post = [pre EXCEPT !.h = post.h, !.l = post.l, !.f = post.f,
                                  !.pc = (pre.pc + 1) % 65536]

\* The scenario: HL = 0x8A23, BC = 0x0605, F = 0 give HL = 0x9028 with H
\* set and C clear
AddHlSetsSumAndFlagsWitness ==
    /\ trace.done.kind = "instr"
    /\ trace.done.ins = <<9, 0>>
    /\ trace.done.pre.registers.h = 138
    /\ trace.done.pre.registers.l = 35
    /\ trace.done.pre.registers.b = 6
    /\ trace.done.pre.registers.c = 5
    /\ trace.done.pre.registers.f = 0
    /\ run.cpu.registers.h = 144
    /\ run.cpu.registers.l = 40
    /\ run.cpu.registers.f = 32

\* The result and the bit shifted out of rotate/shift number y (0 RLC,
\* 1 RRC, 2 RL, 3 RR, 4 SLA, 5 SRA, 6 SWAP, 7 SRL) on the byte v with
\* incoming carry cin (0 or 1)
Rotated(y, v, cin) ==
    CASE y = 0 -> [nv |-> ((2 * v) % 256) + (v \div 128), c |-> v \div 128]
      [] y = 1 -> [nv |-> (v \div 2) + 128 * (v % 2), c |-> v % 2]
      [] y = 2 -> [nv |-> ((2 * v) % 256) + cin, c |-> v \div 128]
      [] y = 3 -> [nv |-> (v \div 2) + 128 * cin, c |-> v % 2]
      [] y = 4 -> [nv |-> (2 * v) % 256, c |-> v \div 128]
      [] y = 5 -> [nv |-> (v \div 2) + 128 * (v \div 128), c |-> v % 2]
      [] y = 6 -> [nv |-> 16 * (v % 16) + (v \div 16), c |-> 0]
      [] y = 7 -> [nv |-> v \div 2, c |-> v % 2]

\* C29: each CB rotate/shift sets Z exactly when its result is 0, N = 0,
\* H = 0 and C to the bit shifted out (SWAP: C = 0); RLCA, RRCA, RLA and
\* RRA compute the same result and C on A but leave Z, N and H clear, also
\* when the resulting A is 0.
RotateFlags ==
    (trace.done.kind = "instr" /\ trace.done.ins[1] \in RotOpcodes) =>
        LET d == trace.done
            pre == d.pre.registers
            post == d.post.registers
            cb == d.ins[1] = 203
            y == IF cb THEN d.ins[2] \div 8 ELSE d.ins[1] \div 8
            rot == Rotated(y, pre.a, (pre.f \div 16) % 2)
        IN  /\ post.a = rot.nv
            /\ post.f = 16 * rot.c + (IF cb /\ rot.nv = 0 THEN 128 ELSE 0)
            /\ post = [pre EXCEPT !.a = post.a, !.f = post.f,
                                  !.pc = (pre.pc + (IF cb THEN 2 ELSE 1)) % 65536]

\* RLA of A = 0x80 with Z, N and H set and CARRY clear: A = 0, F = 0x10
RotateFlagsWitness ==
    /\ trace.done.kind = "instr"
    /\ trace.done.ins = <<23>>
    /\ trace.done.pre.registers.a = 128
    /\ trace.done.pre.registers.f = 224
    /\ run.cpu.registers.a = 0
    /\ run.cpu.registers.f = 16

\* The register file r with v in the 8-bit register number y (0 B, 1 C,
\* 2 D, 3 E, 4 H, 5 L, 7 A; 6 is (HL), no register)
WithReg(r, y, v) ==
    CASE y = 0 -> [r EXCEPT !.b = v]
      [] y = 1 -> [r EXCEPT !.c = v]
      [] y = 2 -> [r EXCEPT !.d = v]
      [] y = 3 -> [r EXCEPT !.e = v]
      [] y = 4 -> [r EXCEPT !.h = v]
      [] y = 5 -> [r EXCEPT !.l = v]
      [] y = 6 -> r
      [] y = 7 -> [r EXCEPT !.a = v]

\* C30: INC r stores (v+1) mod 256 with Z = (result = 0), N = 0,
\* H = ((v & 0xF) = 0xF); DEC r stores (v-1) mod 256 with Z = (result = 0),
\* N = 1, H = ((v & 0xF) = 0); both leave CARRY as it was, also for the
\* (HL) operand.
IncDecFlags ==
    (trace.done.kind = "instr" /\ trace.done.ins[1] \in IncDecOpcodes) =>
        LET d == trace.done
            pre == d.pre.registers
            post == d.post.registers
            y == d.ins[1] \div 8
            inc == d.ins[1] % 8 = 4
            v == IF y = 6 THEN d.ins[2] ELSE pre.a
            nv == IF inc THEN (v + 1) % 256 ELSE (v + 255) % 256
            half == IF inc THEN v % 16 = 15 ELSE v % 16 = 0
            f == (IF nv = 0 THEN 128 ELSE 0) + (IF inc THEN 0 ELSE 64)
                 + (IF half THEN 32 ELSE 0) + 16 * ((pre.f \div 16) % 2)
        IN  /\ post = [WithReg(pre, y, nv) EXCEPT !.f = f, !.pc = (pre.pc + 1) % 65536]
            /\ y = 6 =>
                  /\ d.reqs[2].pins = ReadReq(pre.h * 256 + pre.l)
                  /\ d.reqs[3].pins = WriteReq(pre.h * 256 + pre.l, nv)

\* DEC (HL) of the byte 0x10 with CARRY alone set: 0x0F is written and
\* F = N + H + C
IncDecFlagsWitness ==
    /\ trace.done.kind = "instr"
    /\ trace.done.ins = <<53, 16, 0>>
    /\ trace.done.pre.registers.f = 16
    /\ trace.done.reqs[3].pins = WriteReq(4112, 15)
    /\ run.cpu.registers.f = 112
    /\ run.cpu.registers.a = 16

---------------------------------------------------------------------------
(* C31: window_lines, the counter handed to the fetcher as window_line on  *)
(* window entry, is incremented at the end of a scanline exactly when the  *)
(* window was entered on that scanline: at every dot it equals the number  *)
(* of scanlines of the frame that ended with the window entered.           *)

WindowLinesCountWindowScanlines == gen.window_lines = obs.winLines

---------------------------------------------------------------------------
(* C32: with no CPU write to STAT or LY, a visible scanline shows mode 2,  *)
(* then mode 3, then mode 0, each entered once and in that order; at every *)
(* dot boundary the mode is 1 exactly when LY is in 144..153; and every    *)
(* set_ly moves LY from n to n + 1, from 153 to 0.                         *)

ModeOrder == <<2, 3, 0>>

ModesFollowTheScanline ==
    /\ (STAT_mode(ppu.stat) = 1) <=> (ppu.ly \in VISIBLE_LINES .. TOTAL_LINES - 1)
    /\ ppu.ly \in 0 .. TOTAL_LINES - 1
    /\ obs.dots > 0 /\ ppu.ly < VISIBLE_LINES =>
          \E n \in 1 .. 3 : obs.modes = SubSeq(ModeOrder, 1, n)
    /\ obs.dots > 0 /\ ppu.ly >= VISIBLE_LINES => obs.modes = <<1>>
    /\ obs.lyFrom # -1 => ppu.ly = (obs.lyFrom + 1) % TOTAL_LINES
    /\ obs.lyFrom # -1 =>
          obs.lastModes = IF obs.lyFrom < VISIBLE_LINES THEN ModeOrder ELSE <<1>>

\* the second frame has begun: 144 scanlines went through the three modes,
\* ten stayed in mode 1, LY went from 153 to 0 and mode 2 began again
ModesFollowTheScanlineWitness ==
    /\ obs.lyFrom = TOTAL_LINES - 1
    /\ ppu.ly = 0
    /\ obs.lastFrameLines = TOTAL_LINES
    /\ obs.lastModes = <<1>>
    /\ obs.modes = <<2>>

---------------------------------------------------------------------------
(* C33: on a scanline every slot of the scan buffer is dispatched to the   *)
(* sprite fetcher at most once: a dispatched slot and an empty slot hold   *)
(* xpos 255, a dispatched sprite had xpos of at most 167, so there are at  *)
(* most 10 fetches of 6 dots each, and no resume of the coroutine changes  *)
(* the OAM bytes.                                                          *)

SpriteDispatchedOnce ==
    LET n == Len(obs.fetched)
    IN  /\ \A i, j \in 1 .. n : obs.fetched[i] = obs.fetched[j] => i = j
        /\ n <= SPRITE_BUFFER_SIZE
        /\ \A i \in 1 .. n :
              /\ obs.fetched[i] < gen.sprite_buffer_len
              /\ gen.sprite_buffer[obs.fetched[i]].xpos = 255
        /\ \A i \in gen.sprite_buffer_len .. SPRITE_BUFFER_SIZE - 1 :
              gen.sprite_buffer[i] = OamEntry_offscreen
        /\ gen.pc = "sprite" =>
              /\ gen.fetch_xpos <= (SCREEN_WIDTH - 1) + 8
              /\ gen.fetch_k \in 1 .. SPRITE_FETCH_DOTS
              /\ obs.fetchDots = SPRITE_FETCH_DOTS * (n - 1) + gen.fetch_k
        /\ gen.pc # "sprite" => obs.fetchDots = SPRITE_FETCH_DOTS * n
        /\ last.op = "dot" => last.oam_kept

\* the draw loop of a scanline of the crowded OAM is over: nine of the ten
\* buffered sprites were fetched, in 54 dots; the sprite at xpos 168 in
\* slot 0 was never selected
SpriteDispatchedOnceWitness ==
    /\ gen.pc = "hblank"
    /\ gen.sprite_buffer_len = SPRITE_BUFFER_SIZE
    /\ Len(obs.fetched) = 9
    /\ obs.fetchDots = 9 * SPRITE_FETCH_DOTS
    /\ gen.sprite_buffer[0].xpos = 168
    /\ \A i \in 1 .. 9 : gen.sprite_buffer[i].xpos = 255

---------------------------------------------------------------------------
(* C34: for every tile number t, bg_tile_data_address returns 16 * t when  *)
(* LCDC.BG_TILE_DATA_AREA is set and 0x1000 + 16 * s when it is clear (s   *)
(* is t as a signed byte), without arithmetic overflow, and                *)
(* sprite_tile_data_address returns 16 * t; the 16 bytes of the tile lie   *)
(* inside the tile data array.                                             *)

TileAddress(name, lcdc, t) ==
    IF name = "sprite_tile_data_address" \/ flags_contains(lcdc, BG_TILE_DATA_AREA)
    THEN 16 * t
    ELSE 4096 + 16 * I8(t)

TileAddressesAsStated ==
    last.op \in {"bg_tile_data_address", "sprite_tile_data_address"} =>
        /\ last.arg # "overflow"
        /\ last.wrote = TileAddress(last.op, ppu.lcdc, last.val)
        /\ last.wrote >= 0
        /\ last.wrote + 16 <= BG_MAP_1_BASE - TILE_DATA_BASE

\* what does hold: without overflow checks every address is as stated, and
\* with them the call panics exactly in the signed branch for t >= 0x80
TileAddressesWhenWrapping ==
    last.op \in {"bg_tile_data_address", "sprite_tile_data_address"} =>
        IF /\ run.overflow_checks
           /\ last.op = "bg_tile_data_address"
           /\ ~flags_contains(ppu.lcdc, BG_TILE_DATA_AREA)
           /\ last.val >= 128
        THEN last.arg = "overflow"
        ELSE /\ last.arg = ""
             /\ last.wrote = TileAddress(last.op, ppu.lcdc, last.val)
             /\ last.wrote + 16 <= BG_MAP_1_BASE - TILE_DATA_BASE

---------------------------------------------------------------------------
(* C35: oam(index) fails exactly for the indices its assertion rejects:    *)
(* for every index <= 40 it returns the entry made of the OAM bytes        *)
(* 4 * index .. 4 * index + 3, all of them inside the 160-byte array.      *)

OamAcceptedIndexInBounds ==
    last.op = "oam" =>
        IF last.val <= 40
        THEN /\ last.arg = ""
             /\ 4 * last.val + 3 < OAM_SIZE
             /\ last.entry = [ypos |-> ppu.oam[4 * last.val],
                              xpos |-> ppu.oam[4 * last.val + 1],
                              tile |-> ppu.oam[4 * last.val + 2],
                              flags |-> BitAnd(ppu.oam[4 * last.val + 3], 240)]
        ELSE last.arg = "assertion"

\* what does hold: the entries 0..39 are returned, index 40 passes the
\* assertion and fails the bounds check of the array, larger indices fail
\* the assertion
OamFailsFromIndexForty ==
    last.op = "oam" =>
        CASE last.val < OAM_ENTRIES ->
                /\ last.arg = ""
                /\ last.entry.ypos = ppu.oam[4 * last.val]
                /\ last.entry.xpos = ppu.oam[4 * last.val + 1]
                /\ last.entry.tile = ppu.oam[4 * last.val + 2]
          [] last.val = OAM_ENTRIES -> last.arg = "index out of bounds"
          [] OTHER -> last.arg = "assertion"

---------------------------------------------------------------------------
(* C36: the two frame buffers are swapped once per frame, in the resume    *)
(* that enters VBlank after scanline 143; every put_pixel of scanlines     *)
(* 0..143 stores into the back buffer at 0 <= x < 160, 0 <= y < 144; and   *)
(* the front buffer stays as the last swap left it.                        *)

FramesSwapAtVblank ==
    /\ gen.pc # "panicked"
    /\ obs.frameSwaps = IF ppu.ly >= VISIBLE_LINES THEN 1 ELSE 0
    /\ gen.swapped =>
          /\ gen.ly_advanced
          /\ ppu.ly = VISIBLE_LINES
          /\ obs.lyFrom = VISIBLE_LINES - 1
    /\ gen.put # <<>> =>
          /\ gen.put[1] \in 0 .. SCREEN_WIDTH - 1
          /\ gen.put[2] \in 0 .. VISIBLE_LINES - 1
          /\ gen.put[2] = ppu.ly
          /\ ppu.back_frame.at = gen.put
    /\ ppu.frame = obs.front

\* the second frame draws its first pixel into the buffer that was the
\* front of the first frame, while the front holds the 160 x 144 pixels of
\* the first frame, the last of them at (159, 143)
FramesSwapAtVblankWitness ==
    /\ gen.put = <<0, 0>>
    /\ obs.lastFrameLines = TOTAL_LINES
    /\ ppu.back_frame = [stores |-> 1, at |-> <<0, 0>>]
    /\ ppu.frame = [stores |-> SCREEN_WIDTH * VISIBLE_LINES,
                    at |-> <<SCREEN_WIDTH - 1, VISIBLE_LINES - 1>>]

---------------------------------------------------------------------------
(* C37: in every DMA state reached by writes to 0xFF46 and clock_dma       *)
(* calls, a restarted transfer included, an Active{addr} has addr mod      *)
(* 0x100 in 0..0x9F, so the OAM store of clock_dma is inside the 160-byte  *)
(* array and addr + 1 fits 16 bits; and a read of 0xFF46 made while a      *)
(* transfer is in progress returns the byte that started it.               *)

DmaStaysInsideOam ==
    /\ DOMAIN ppu.oam = 0 .. OAM_SIZE - 1
    /\ ppu.dma_transfer.addr \in 0 .. 65535
    /\ ppu.dma_transfer.state = "ActiveFirstRead" =>
          ppu.dma_transfer.addr = DmaBase
    /\ ppu.dma_transfer.state = "Active" =>
          /\ ppu.dma_transfer.addr % 256 \in 0 .. OAM_SIZE - 1
          /\ ppu.dma_transfer.addr \div 256 = dmaObs.page
          /\ ppu.dma_transfer.addr + 1 <= 65535
    /\ (last.op = "io" /\ last.req = ReadReq(REG_DMA) /\ ~DmaIdle) =>
          data_out = dmaObs.page

\* a transfer from page 0xFF, started while another was under way, is about
\* to store its last byte, and a read of 0xFF46 has just returned 0xFF
DmaStaysInsideOamWitness ==
    /\ dmaObs.starts = 2
    /\ dmaObs.page = 255
    /\ dmaObs.calls = OAM_SIZE
    /\ ppu.dma_transfer = DmaActive(65439)
    /\ last.op = "io"
    /\ last.req = ReadReq(REG_DMA)
    /\ data_out = 255

---------------------------------------------------------------------------
(* C38: a dispatch (first request Read{0xFF0F}) starts only at an          *)
(* instruction boundary, and exactly when IME is set and the input         *)
(* delivered on the M-cycle before asserts a line: lines asserted only     *)
(* inside a multi-cycle instruction start nothing, the instruction before  *)
(* a dispatch has run all its M-cycles, a dispatch leaves IME clear and    *)
(* only EI and RETI set it again.                                          *)

RETI == 217     \* 0xD9

\* the M-cycles of the instructions of SpecRun
RunCycles(op) ==
    CASE op = 1 -> 3        \* LD BC,nn
      [] op = 3 -> 2        \* INC BC
      [] op = 203 -> 4      \* CB 36: SWAP (HL)
      [] OTHER -> 1         \* NOP, STOP, HALT, DI, EI

DispatchOnlyAtBoundary ==
    /\ run.panic = ""
    /\ trace.seg.kind # "none" =>
          (trace.seg.kind = "dispatch") <=> (trace.seg.pre.ime /\ trace.seg.lines # {})
    /\ (run.out.pins = ReadReq(REG_IF) /\ Len(trace.seg.reqs) = 1) =>
          trace.seg.kind = "dispatch"
    /\ (trace.done.kind = "instr" /\ Len(trace.seg.reqs) = 1) =>
          /\ Len(trace.done.reqs) = RunCycles(trace.done.ins[1])
          /\ trace.seg.pre = trace.done.post
          /\ (trace.done.post.ime /\ ~trace.done.pre.ime) =>
                trace.done.ins[1] \in {EI, RETI}
    /\ trace.done.kind = "dispatch" =>
          /\ Len(trace.done.reqs) = 5
          /\ ~trace.done.post.ime
          /\ Len(trace.seg.reqs) = 1 => trace.seg.kind # "dispatch"

\* LD BC,nn ran its three M-cycles with IME set; a line was asserted while
\* its opcode or its first operand was delivered and released before the
\* last operand: the next request is an opcode fetch
DispatchOnlyAtBoundaryWitness ==
    /\ trace.done.kind = "instr"
    /\ trace.done.ins[1] = 1
    /\ Len(trace.done.reqs) = 3
    /\ trace.done.pre.ime
    /\ trace.done.interior
    /\ trace.seg.lines = {}
    /\ trace.seg.kind = "instr"
    /\ Len(trace.seg.reqs) = 1
    /\ run.out.is_fetch_cycle

---------------------------------------------------------------------------
(* C39: the VBlank request is presented once per frame: during the VBlank  *)
(* scanlines, an IF byte whose bit 0 the dispatch has cleared keeps bit 0  *)
(* clear across every later bus access, until the next frame enters mode   *)
(* 1.                                                                      *)

VblankRequestedOncePerFrame ==
    (/\ last.op = "io"
     /\ ppu.ly \in VISIBLE_LINES .. TOTAL_LINES - 1
     /\ ~BitSet(last.irq, 0)) => ~BitSet(if_reg, 0)

---------------------------------------------------------------------------
(* C40: for every PC and every displacement d, JR d and a taken JR cc,d    *)
(* set PC to (the address after the displacement byte + d) mod 65536,      *)
(* without an overflow failure; an untaken JR cc,d leaves PC at the        *)
(* address after the displacement byte.                                    *)

\* PC after the JR instruction `op` at `pc` with displacement byte d and
\* flags f
JrTarget(op, pc, d, f) ==
    LET after == wrapping_add16(pc, 2)
        taken == op = 24 \/ ConditionHolds(f, ((op \div 8) % 8) % 4)
    IN  IF taken THEN (after + I8(d)) % 65536 ELSE after

JrSetsPc ==
    /\ (trace.seg.kind = "instr" /\ trace.seg.ins # <<>>
            /\ trace.seg.ins[1] \in JrOpcodes) => run.panic = ""
    /\ (trace.done.kind = "instr" /\ trace.done.ins[1] \in JrOpcodes) =>
          trace.done.post.registers.pc =
              JrTarget(trace.done.ins[1], trace.done.pre.registers.pc,
                       trace.done.ins[2], trace.done.pre.registers.f)

\* what does hold: a JR that completes sets PC as stated, and a JR panics
\* exactly when it is taken in a build with overflow checks and the address
\* after the displacement byte plus d, both read as signed 16-bit numbers,
\* leaves -32768 .. 32767
JrPanicsAcrossSignBoundary ==
    /\ (trace.done.kind = "instr" /\ trace.done.ins[1] \in JrOpcodes) =>
          trace.done.post.registers.pc =
              JrTarget(trace.done.ins[1], trace.done.pre.registers.pc,
                       trace.done.ins[2], trace.done.pre.registers.f)
    /\ (trace.seg.kind = "instr" /\ Len(trace.seg.ins) >= 2
            /\ trace.seg.ins[1] \in JrOpcodes) =>
          LET op == trace.seg.ins[1]
              sum == I16(wrapping_add16(trace.seg.pre.registers.pc, 2))
                        + I8(trace.seg.ins[2])
              taken == op = 24 \/ ConditionHolds(trace.seg.pre.registers.f,
                                                 ((op \div 8) % 8) % 4)
          IN  (run.panic # "") <=>
                  /\ run.overflow_checks
                  /\ taken
                  /\ sum > 32767 \/ sum < -32768

====
